---- MODULE Spec2Model ----
(***************************************************************************)
(* A model of the SVG -> JSON -> DXF geometry pipeline of                  *)
(* VectorImgAnalysis (svg_to_dxf.py, svg_vector_extractor.py).             *)
(*                                                                         *)
(* Numbers: Python floats are modelled as exact rationals <<n, d>> in      *)
(* lowest terms with d > 0; IEEE-754 rounding is not modelled.  A point is *)
(* a pair <<x, y>> of such numbers.  Python's None is the empty tuple.     *)
(* Strings that the code parses are sequences of one-character strings.    *)
(***************************************************************************)
EXTENDS Integers, Sequences, FiniteSets, TLC

VARIABLES
    pc,               \* position inside create_dxf_from_vectors / the harness
    svg_metadata,     \* vector_data['svg_metadata']: [height, viewBox]
    layer_by_type,    \* argument of create_dxf_from_vectors
    svg_height,       \* local svg_height (None or a number)
    warnings,         \* the warnings printed so far
    stats,            \* local stats dictionary
    msp,              \* the modelspace: entities in the order they were added
    current_point,    \* local current_point of the path walk
    polyline_points,  \* local polyline_points of the path walk
    path_idx,         \* number of paths whose walk has started
    doc,              \* the part of vector_data read so far (paths, shapes)
    pen,              \* end point of the last segment read (the source's pen)
    origin,           \* per entity of msp: where it came from (history)
    acc_src,          \* per point of polyline_points: the path it came from
    prev,             \* the last step: its kind, and polyline_points and len(msp) before it
    fn_arg,           \* argument of the pure function under test
    fn_ret            \* its result

vars == <<pc, svg_metadata, layer_by_type, svg_height, warnings, stats, msp,
          current_point, polyline_points, path_idx, doc, pen, origin, acc_src,
          prev, fn_arg, fn_ret>>

synth_vars == <<svg_metadata, layer_by_type, svg_height, warnings, stats, msp,
                current_point, polyline_points, path_idx, doc, pen, origin,
                acc_src, prev>>

-----------------------------------------------------------------------------
(* Bounds of the model *)

MaxItems == 5       \* paths, segments and shapes read from one document
MaxShapes == 2      \* shapes of one document
MaxStrLen == 3      \* length of a height attribute
MaxListLen == 2     \* length of a point list given to flip_y_list
MantBits == 5       \* significant bits of a float (a Python float has 53)
MaxCoord == 1       \* largest coordinate of a Bezier control point
MaxCatPaths == 2    \* paths given to categorize_vectors
MaxJsonItems == 2   \* paths and shapes of a document that is exported
MaxElems == 3       \* elements of one SVG document
MaxWalk == 2        \* segments of the path of a walk that is followed to its end
MaxFiles == 2       \* SVG files of the input directory
MaxRuns == 2        \* runs of the batch pipeline on the same directories
MaxReplay == 3      \* items of a document that is converted twice

-----------------------------------------------------------------------------
(* Rational arithmetic standing in for Python float arithmetic.  A value   *)
(* is <<numerator, denominator>> in lowest terms.  The sums, products and  *)
(* quotients of the Bezier formulas are exact; the subtraction of flip_y   *)
(* rounds to a float (FSub below).                                         *)

None == <<>>

Abs(n) == IF n < 0 THEN -n ELSE n

RECURSIVE Gcd(_, _)
Gcd(a, b) == IF b = 0 THEN a ELSE Gcd(b, a % b)

Norm(n, d) ==
    LET g == Gcd(Abs(n), Abs(d))
        s == IF d < 0 THEN -1 ELSE 1
    IN  <<(s * n) \div g, (s * d) \div g>>

R(n) == <<n, 1>>
RAdd(a, b) == Norm(a[1] * b[2] + b[1] * a[2], a[2] * b[2])
RSub(a, b) == Norm(a[1] * b[2] - b[1] * a[2], a[2] * b[2])
RMul(a, b) == Norm(a[1] * b[1], a[2] * b[2])
RDiv(a, b) == Norm(a[1] * b[2], a[2] * b[1])
RLeq(a, b) == a[1] * b[2] <= b[1] * a[2]
RLt(a, b)  == a[1] * b[2] < b[1] * a[2]
RPow2(a) == RMul(a, a)
RPow3(a) == RMul(a, RMul(a, a))

Pt(x, y) == <<R(x), R(y)>>

Last(q) == q[Len(q)]

RECURSIVE Pow10(_)
Pow10(k) == IF k = 0 THEN 1 ELSE 10 * Pow10(k - 1)

RECURSIVE Pow2(_)
Pow2(k) == IF k = 0 THEN 1 ELSE 2 * Pow2(k - 1)

-----------------------------------------------------------------------------
(* Float rounding.  A float holds MantBits significant bits; the result of *)
(* a float subtraction is the exact difference rounded to the nearest      *)
(* float, ties to the even mantissa.                                       *)

\* the exponent e with 2^(MantBits-1) <= a / 2^e < 2^MantBits, for a > 0
RECURSIVE Expo(_)
Expo(a) ==
    IF a[1] >= Pow2(MantBits) * a[2] THEN 1 + Expo(<<a[1], 2 * a[2]>>)
    ELSE IF a[1] < Pow2(MantBits - 1) * a[2] THEN Expo(<<2 * a[1], a[2]>>) - 1
    ELSE 0

Round(q) ==
    IF q[1] = 0 THEN q
    ELSE LET sgn == IF q[1] < 0 THEN -1 ELSE 1
             a   == <<Abs(q[1]), q[2]>>
             e   == Expo(a)
             sn  == IF e < 0 THEN a[1] * Pow2(-e) ELSE a[1]
             sd  == IF e < 0 THEN a[2] ELSE a[2] * Pow2(e)
             fl  == sn \div sd
             rem == sn % sd
             m   == IF 2 * rem > sd \/ (2 * rem = sd /\ fl % 2 = 1)
                    THEN fl + 1 ELSE fl
         IN  IF e < 0 THEN Norm(sgn * m, Pow2(-e)) ELSE R(sgn * m * Pow2(e))

\* a - b on floats
FSub(a, b) == Round(RSub(a, b))

-----------------------------------------------------------------------------
(* svg_to_dxf.py: flip_y, flip_y_list *)

\* mutant: the subtraction the other way round
flip_y_Reversed(point, height) ==
    IF height = None THEN point
    ELSE <<point[1], FSub(point[2], height)>>

flip_y(point, height) ==
    IF height = None THEN point
    ELSE <<point[1], FSub(height, point[2])>>

flip_y_list(points, height) ==
    IF height = None THEN points
    ELSE [i \in 1..Len(points) |-> flip_y(points[i], height)]

-----------------------------------------------------------------------------
(* svg_to_dxf.py: approximate_cubic_bezier, approximate_quadratic_bezier *)

CubicNumPoints == 20
QuadNumPoints == 15

\* the four factors (1-t)**3, 3*(1-t)**2*t, 3*(1-t)*t**2, t**3 of line 348
CubicFactors(t) ==
    LET u == RSub(R(1), t) IN
    << RPow3(u), RMul(RMul(R(3), RPow2(u)), t),
       RMul(RMul(R(3), u), RPow2(t)), RPow3(t) >>

\* the three factors (1-t)**2, 2*(1-t)*t, t**2 of line 362
QuadFactors(t) ==
    LET u == RSub(R(1), t) IN
    << RPow2(u), RMul(RMul(R(2), u), t), RPow2(t) >>

CubicCoord(f, a0, a1, a2, a3) ==
    RAdd(RAdd(RAdd(RMul(f[1], a0), RMul(f[2], a1)), RMul(f[3], a2)), RMul(f[4], a3))

\* mutant: range(num_points), the sample at t = 1 is missing
approximate_cubic_bezier_Short(p0, p1, p2, p3, num_points) ==
    [k \in 1..num_points |->
        LET f == CubicFactors(RDiv(R(k - 1), R(num_points))) IN
        << CubicCoord(f, p0[1], p1[1], p2[1], p3[1]),
           CubicCoord(f, p0[2], p1[2], p2[2], p3[2]) >>]

approximate_cubic_bezier(p0, p1, p2, p3, num_points) ==
    [k \in 1..(num_points + 1) |->
        LET f == CubicFactors(RDiv(R(k - 1), R(num_points))) IN
        << CubicCoord(f, p0[1], p1[1], p2[1], p3[1]),
           CubicCoord(f, p0[2], p1[2], p2[2], p3[2]) >>]

QuadCoord(f, a0, a1, a2) ==
    RAdd(RAdd(RMul(f[1], a0), RMul(f[2], a1)), RMul(f[3], a2))

approximate_quadratic_bezier(p0, p1, p2, num_points) ==
    [k \in 1..(num_points + 1) |->
        LET f == QuadFactors(RDiv(R(k - 1), R(num_points))) IN
        << QuadCoord(f, p0[1], p1[1], p2[1]),
           QuadCoord(f, p0[2], p1[2], p2[2]) >>]

-----------------------------------------------------------------------------
(* Python string operations used by get_svg_height *)

NotSpecified == <<"not specified">>   \* the default of svg_metadata.get(...)
ValueError == <<"ValueError">>        \* float() raised

Digits == <<"0", "1", "2", "3", "4", "5", "6", "7", "8", "9">>
isdigit(c) == \E i \in 1..10 : Digits[i] = c
DigitVal(c) == (CHOOSE i \in 1..10 : Digits[i] = c) - 1

\* number of consecutive digits of s from position i on
RECURSIVE DigitsRun(_, _)
DigitsRun(s, i) ==
    IF i <= Len(s) /\ isdigit(s[i]) THEN 1 + DigitsRun(s, i + 1) ELSE 0

\* value of the n digits of s that start at position i
RECURSIVE IntOf(_, _, _)
IntOf(s, i, n) ==
    IF n = 0 THEN 0 ELSE 10 * IntOf(s, i, n - 1) + DigitVal(s[i + n - 1])

\* float(s): [sign] (digits [. [digits]] | . digits) [e [sign] digits]
float(s) ==
    LET hasSign == Len(s) >= 1 /\ s[1] \in {"-", "+"}
        sgn   == IF hasSign /\ s[1] = "-" THEN -1 ELSE 1
        i0    == IF hasSign THEN 2 ELSE 1
        nInt  == DigitsRun(s, i0)
        i1    == i0 + nInt
        hasDot == i1 <= Len(s) /\ s[i1] = "."
        nFrac == IF hasDot THEN DigitsRun(s, i1 + 1) ELSE 0
        i2    == i1 + (IF hasDot THEN 1 ELSE 0) + nFrac
        hasExp == i2 <= Len(s) /\ s[i2] \in {"e", "E"}
        hasESign == hasExp /\ i2 + 1 <= Len(s) /\ s[i2 + 1] \in {"-", "+"}
        esgn  == IF hasESign /\ s[i2 + 1] = "-" THEN -1 ELSE 1
        i3    == i2 + 1 + (IF hasESign THEN 1 ELSE 0)
        nExp  == IF hasExp THEN DigitsRun(s, i3) ELSE 0
        iEnd  == IF hasExp THEN i3 + nExp ELSE i2
        ok    == /\ nInt + nFrac >= 1
                 /\ hasExp => nExp >= 1
                 /\ iEnd = Len(s) + 1
        mant  == Norm(sgn * (IntOf(s, i0, nInt) * Pow10(nFrac) + IntOf(s, i1 + 1, nFrac)),
                      Pow10(nFrac))
        e     == IntOf(s, i3, nExp)
    IN  IF ~ok THEN ValueError
        ELSE IF ~hasExp THEN mant
        ELSE IF esgn = 1 THEN RMul(mant, R(Pow10(e)))
        ELSE RDiv(mant, R(Pow10(e)))

\* s.split(): the maximal runs of non-blank characters
RECURSIVE SplitFrom(_, _, _)
SplitFrom(s, i, cur) ==
    IF i > Len(s) THEN (IF cur = <<>> THEN <<>> ELSE <<cur>>)
    ELSE IF s[i] = " "
         THEN (IF cur = <<>> THEN <<>> ELSE <<cur>>) \o SplitFrom(s, i + 1, <<>>)
         ELSE SplitFrom(s, i + 1, Append(cur, s[i]))

split(s) == SplitFrom(s, 1, <<>>)

\* ''.join(c for c in s if c.isdigit() or c == '.')
DigitsAndDots(s) == SelectSeq(s, LAMBDA c : isdigit(c) \/ c = ".")

-----------------------------------------------------------------------------
(* svg_to_dxf.py: get_svg_height *)

HeightFromAttribute(height_str) ==
    IF height_str # NotSpecified THEN float(DigitsAndDots(height_str))
    ELSE ValueError

HeightFromViewBox(viewBox_str) ==
    IF viewBox_str # NotSpecified
    THEN LET parts == split(viewBox_str) IN
         IF Len(parts) = 4 THEN float(parts[4]) ELSE ValueError
    ELSE ValueError

\* mutant: an unresolved height defaults to 0
get_svg_height_DefaultZero(meta) ==
    LET a == HeightFromAttribute(meta.height)
        v == HeightFromViewBox(meta.viewBox)
    IN  IF a # ValueError THEN a
        ELSE IF v # ValueError THEN v
        ELSE R(0)

get_svg_height(meta) ==
    LET a == HeightFromAttribute(meta.height)
        v == HeightFromViewBox(meta.viewBox)
    IN  IF a # ValueError THEN a
        ELSE IF v # ValueError THEN v
        ELSE None

-----------------------------------------------------------------------------
(* svg_to_dxf.py: the emission functions.  Each returns the modelspace     *)
(* after the call; m is the modelspace before it.                          *)

add_line(m, start, end, layer, height) ==
    Append(m, [kind |-> "LINE", layer |-> layer,
               points |-> <<flip_y(start, height), flip_y(end, height)>>])

\* mutant: the number of points is not looked at
add_polyline_NoGuard(m, points, layer, height, closed) ==
    Append(m, [kind |-> "LWPOLYLINE", layer |-> layer,
               points |-> flip_y_list(points, height),
               closed |-> closed])

add_polyline(m, points, layer, height, closed) ==
    IF Len(points) < 2 THEN m
    ELSE Append(m, [kind |-> "LWPOLYLINE", layer |-> layer,
                    points |-> flip_y_list(points, height),
                    closed |-> closed])

\* mutant: the radius is not looked at
add_circle_NoGuard(m, center, radius, layer, height) ==
    Append(m, [kind |-> "CIRCLE", layer |-> layer,
               center |-> flip_y(center, height), radius |-> radius])

add_circle(m, center, radius, layer, height) ==
    IF RLeq(radius, R(0)) THEN m
    ELSE Append(m, [kind |-> "CIRCLE", layer |-> layer,
                    center |-> flip_y(center, height), radius |-> radius])

\* mutant: the major axis is always taken along X
add_ellipse_AlongX(m, center, rx, ry, layer, height) ==
    IF RLeq(rx, R(0)) \/ RLeq(ry, R(0)) THEN m
    ELSE Append(m, [kind |-> "ELLIPSE", layer |-> layer,
                    center |-> flip_y(center, height),
                    major_axis |-> <<rx, R(0)>>,
                    ratio |-> RDiv(ry, rx)])

add_ellipse(m, center, rx, ry, layer, height) ==
    IF RLeq(rx, R(0)) \/ RLeq(ry, R(0)) THEN m
    ELSE Append(m, [kind |-> "ELLIPSE", layer |-> layer,
                    center |-> flip_y(center, height),
                    major_axis |-> IF RLeq(ry, rx) THEN <<rx, R(0)>> ELSE <<R(0), ry>>,
                    ratio |-> IF RLeq(ry, rx) THEN RDiv(ry, rx) ELSE RDiv(rx, ry)])

\* msp.add_spline(points, degree=3) followed by spline.dxf.layer = layer
add_spline(m, points, degree, layer) ==
    Append(m, [kind |-> "SPLINE", layer |-> layer, points |-> points,
               degree |-> degree])

-----------------------------------------------------------------------------
(* svg_vector_extractor.py: the records the extractor writes *)

\* a length: the square root of the rational q, kept symbolically
Sqrt(q) == <<"sqrt", q>>
Dist(a, b) == Sqrt(RAdd(RPow2(RSub(b[1], a[1])), RPow2(RSub(b[2], a[2]))))

MoveSeg(p) ==
    [type |-> "Move", operation |-> "m", data |-> [start |-> p, end |-> p]]
LineSeg(a, b) ==
    [type |-> "Line", operation |-> "l",
     data |-> [start |-> a, end |-> b, length |-> Dist(a, b)]]
CubicSeg(a, c1, c2, b) ==
    [type |-> "CubicBezier", operation |-> "c",
     data |-> [start |-> a, control1 |-> c1, control2 |-> c2, end |-> b]]
QuadSeg(a, c, b) ==
    [type |-> "QuadraticBezier", operation |-> "q",
     data |-> [start |-> a, control |-> c, end |-> b]]
ArcSeg(a, b) ==
    [type |-> "Arc", operation |-> "a", data |-> [start |-> a, end |-> b]]
CloseSeg(a, b) ==
    [type |-> "Close", operation |-> "z", data |-> [start |-> a, end |-> b]]

\* mutant: the last two corners are swapped
RectShape_ZOrder(x, y, width, height) ==
    [type |-> "rectangle", x |-> x, y |-> y, width |-> width, height |-> height,
     corners |-> << <<x, y>>, <<RAdd(x, width), y>>,
                    <<x, RAdd(y, height)>>, <<RAdd(x, width), RAdd(y, height)>> >>]

RectShape(x, y, width, height) ==
    [type |-> "rectangle", x |-> x, y |-> y, width |-> width, height |-> height,
     corners |-> << <<x, y>>, <<RAdd(x, width), y>>,
                    <<RAdd(x, width), RAdd(y, height)>>, <<x, RAdd(y, height)>> >>]
CircleShape(c, r) == [type |-> "circle", center |-> c, radius |-> r]
EllipseShape(c, rx, ry) ==
    [type |-> "ellipse", center |-> c, radius_x |-> rx, radius_y |-> ry]
LineShape(a, b) == [type |-> "line", start |-> a, end |-> b, length |-> Dist(a, b)]
PolyShape(tag, points) ==
    [type |-> tag, points |-> points, num_points |-> Len(points),
     closed |-> (tag = "polygon")]

-----------------------------------------------------------------------------
(* svg_vector_extractor.py: extract_path_elements, extract_shape_elements. *)
(* An element is a record of its tag and attributes.  The d attribute of a *)
(* path is kept as the sequence of its commands: each command is the       *)
(* segment object parse_path makes of it, or a command parse_path raises   *)
(* on, or a segment object parse_segment raises on.  The other attributes  *)
(* are strings.                                                            *)

Unparseable == [cls |-> "Unparseable"]     \* parse_path raises on it
Unconvertible == [cls |-> "Unconvertible"] \* parse_segment raises on it

\* parse_path(d): the segment objects, or an exception
parse_path(d) ==
    IF \E i \in 1..Len(d) : d[i].cls = "Unparseable"
    THEN [raised |-> TRUE, value |-> <<>>]
    ELSE [raised |-> FALSE, value |-> d]

\* parse_segment(segment): segment_data
parse_segment(segment) ==
    CASE segment.cls = "Line" -> LineSeg(segment.start, segment.end)
      [] segment.cls = "CubicBezier" ->
            CubicSeg(segment.start, segment.control1, segment.control2, segment.end)
      [] segment.cls = "QuadraticBezier" ->
            QuadSeg(segment.start, segment.control, segment.end)
      [] segment.cls = "Arc" -> ArcSeg(segment.start, segment.end)
      [] segment.cls = "Move" -> MoveSeg(segment.end)
      [] segment.cls = "Close" -> CloseSeg(segment.start, segment.end)

\* mutant: a segment that cannot be converted is left out and the path kept
RECURSIVE FillSegments_SkipBad(_, _, _)
FillSegments_SkipBad(parsed_path, i, path_data) ==
    IF i > Len(parsed_path) THEN [raised |-> FALSE, value |-> path_data]
    ELSE IF parsed_path[i].cls = "Unconvertible"
    THEN FillSegments_SkipBad(parsed_path, i + 1, path_data)
    ELSE FillSegments_SkipBad(parsed_path, i + 1,
            [path_data EXCEPT !.segments = Append(@, parse_segment(parsed_path[i]))])

\* lines 57-59: the segments are appended to path_data one by one; value is
\* path_data as it is when the loop ends or raises
RECURSIVE FillSegments(_, _, _)
FillSegments(parsed_path, i, path_data) ==
    IF i > Len(parsed_path) THEN [raised |-> FALSE, value |-> path_data]
    ELSE IF parsed_path[i].cls = "Unconvertible"
    THEN [raised |-> TRUE, value |-> path_data]
    ELSE FillSegments(parsed_path, i + 1,
            [path_data EXCEPT !.segments = Append(@, parse_segment(parsed_path[i]))])

\* lines 46-65: the body of try for one path element
PathData(d) ==
    LET parsed_path == parse_path(d)
    IN  IF parsed_path.raised THEN parsed_path
        ELSE FillSegments(parsed_path.value, 1,
                          [type |-> "path", d |-> d, segments |-> <<>>])

RECURSIVE PathElements(_, _, _)
PathElements(elems, i, paths) ==
    IF i > Len(elems) THEN paths
    ELSE IF elems[i].tag = "path" /\ elems[i].d # <<>>
    THEN LET r == PathData(elems[i].d)
         IN  PathElements(elems, i + 1, IF r.raised THEN paths ELSE Append(paths, r.value))
    ELSE PathElements(elems, i + 1, paths)

extract_path_elements(elems) == PathElements(elems, 1, <<>>)

\* points_str.replace(',', ' ')
replace_commas(s) == [i \in 1..Len(s) |-> IF s[i] = "," THEN " " ELSE s[i]]

\* lines 203-206: for i in range(0, len(coords)-1, 2); a ValueError of float()
\* is not caught
RECURSIVE PointsOf(_, _, _)
AddPoint(coords, i, points, x, y) ==
    IF x = ValueError \/ y = ValueError
    THEN [raised |-> TRUE, value |-> points]
    ELSE PointsOf(coords, i + 2, Append(points, <<x, y>>))

PointsOf(coords, i, points) ==
    IF i > Len(coords) - 1 THEN [raised |-> FALSE, value |-> points]
    ELSE AddPoint(coords, i, points, float(coords[i]), float(coords[i + 1]))

\* lines 208-214
PolyOf(tag, points) ==
    IF points.raised THEN points
    ELSE [raised |-> FALSE, value |-> PolyShape(tag, points.value)]

\* lines 199-214
PolyElement(elem) ==
    PolyOf(elem.tag,
           IF elem.points # <<>>
           THEN PointsOf(split(replace_commas(elem.points)), 1, <<>>)
           ELSE [raised |-> FALSE, value |-> <<>>])

\* lines 162-168
CircleOf(cx, cy, r) ==
    IF cx = ValueError \/ cy = ValueError \/ r = ValueError
    THEN [raised |-> TRUE, value |-> <<>>]
    ELSE [raised |-> FALSE, value |-> CircleShape(<<cx, cy>>, r)]

\* lines 157-168
CircleElement(elem) == CircleOf(float(elem.cx), float(elem.cy), float(elem.r))

\* the loop of extract_shape_elements: it has no try, what float() raises
\* leaves the function
RECURSIVE ShapeElements(_, _, _)
AddShape(elems, i, shapes, r) ==
    IF r.raised THEN [raised |-> TRUE, value |-> shapes]
    ELSE ShapeElements(elems, i + 1, Append(shapes, r.value))

ShapeElements(elems, i, shapes) ==
    IF i > Len(elems) THEN [raised |-> FALSE, value |-> shapes]
    ELSE IF elems[i].tag \in {"polyline", "polygon", "circle"}
    THEN AddShape(elems, i, shapes,
                  IF elems[i].tag = "circle" THEN CircleElement(elems[i])
                  ELSE PolyElement(elems[i]))
    ELSE ShapeElements(elems, i + 1, shapes)

extract_shape_elements(elems) == ShapeElements(elems, 1, <<>>)

-----------------------------------------------------------------------------
(* svg_vector_extractor.py: categorize_vectors *)

CatLine(a, b, len, source) ==
    [type |-> "line", start |-> a, end |-> b, length |-> len, source |-> source]

\* lines 225-240: the lines and the curves of one path's segments
RECURSIVE SegLines(_, _)
SegLines(segs, i) ==
    IF i > Len(segs) THEN <<>>
    ELSE (IF segs[i].operation = "l"
          THEN << CatLine(segs[i].data.start, segs[i].data.end,
                          segs[i].data.length, "path") >>
          ELSE <<>>) \o SegLines(segs, i + 1)

RECURSIVE SegCurves(_, _)
SegCurves(segs, i) ==
    IF i > Len(segs) THEN <<>>
    ELSE (IF segs[i].operation \in {"c", "q", "a"}
          THEN << [type |-> segs[i].type, operation |-> segs[i].operation,
                   data |-> segs[i].data, source |-> "path"] >>
          ELSE <<>>) \o SegCurves(segs, i + 1)

\* mutant: the length is taken from the start point to itself
RECURSIVE EdgeLines_SamePoint(_, _, _)
EdgeLines_SamePoint(points, i, source) ==
    IF i > Len(points) - 1 THEN <<>>
    ELSE << CatLine(points[i], points[i + 1], Dist(points[i], points[i]), source) >>
         \o EdgeLines_SamePoint(points, i + 1, source)

\* lines 273-283: the edges between consecutive points
RECURSIVE EdgeLines(_, _, _)
EdgeLines(points, i, source) ==
    IF i > Len(points) - 1 THEN <<>>
    ELSE << CatLine(points[i], points[i + 1], Dist(points[i], points[i + 1]), source) >>
         \o EdgeLines(points, i + 1, source)

\* mutant: a polygon of two points is closed as well
ShapeLines_AlwaysClose(shape) ==
    IF shape.type = "line"
    THEN << CatLine(shape.start, shape.end, shape.length, "shape") >>
    ELSE IF shape.type = "rectangle"
    THEN [i \in 1..4 |->
            LET start == shape.corners[i]
                end == shape.corners[(i % 4) + 1]
            IN  CatLine(start, end, Dist(start, end), "rectangle")]
    ELSE IF shape.type \in {"polyline", "polygon"}
    THEN EdgeLines(shape.points, 1, shape.type)
         \o (IF shape.closed /\ Len(shape.points) > 1
             THEN << CatLine(Last(shape.points), shape.points[1],
                             Dist(Last(shape.points), shape.points[1]), shape.type) >>
             ELSE <<>>)
    ELSE <<>>

\* lines 244-294: the lines of one shape
ShapeLines(shape) ==
    IF shape.type = "line"
    THEN << CatLine(shape.start, shape.end, shape.length, "shape") >>
    ELSE IF shape.type = "rectangle"
    THEN [i \in 1..4 |->
            LET start == shape.corners[i]
                end == shape.corners[(i % 4) + 1]
            IN  CatLine(start, end, Dist(start, end), "rectangle")]
    ELSE IF shape.type \in {"polyline", "polygon"}
    THEN EdgeLines(shape.points, 1, shape.type)
         \o (IF shape.closed /\ Len(shape.points) > 2
             THEN << CatLine(Last(shape.points), shape.points[1],
                             Dist(Last(shape.points), shape.points[1]), shape.type) >>
             ELSE <<>>)
    ELSE <<>>

\* lines 265-270: the curve of one shape
ShapeCurves(shape) ==
    IF shape.type \in {"circle", "ellipse"}
    THEN << [type |-> shape.type, data |-> shape, source |-> "shape"] >>
    ELSE <<>>

RECURSIVE PathsLines(_, _)
PathsLines(paths, i) ==
    IF i > Len(paths) THEN <<>> ELSE SegLines(paths[i], 1) \o PathsLines(paths, i + 1)

RECURSIVE PathsCurves(_, _)
PathsCurves(paths, i) ==
    IF i > Len(paths) THEN <<>> ELSE SegCurves(paths[i], 1) \o PathsCurves(paths, i + 1)

RECURSIVE ShapesLines(_, _)
ShapesLines(shapes, i) ==
    IF i > Len(shapes) THEN <<>> ELSE ShapeLines(shapes[i]) \o ShapesLines(shapes, i + 1)

RECURSIVE ShapesCurves(_, _)
ShapesCurves(shapes, i) ==
    IF i > Len(shapes) THEN <<>> ELSE ShapeCurves(shapes[i]) \o ShapesCurves(shapes, i + 1)

\* mutant: the shapes are visited before the paths
categorize_vectors_ShapesFirst(paths, shapes) ==
    [lines  |-> ShapesLines(shapes, 1) \o PathsLines(paths, 1),
     curves |-> ShapesCurves(shapes, 1) \o PathsCurves(paths, 1)]

\* returns (lines, curves)
categorize_vectors(paths, shapes) ==
    [lines  |-> PathsLines(paths, 1) \o ShapesLines(shapes, 1),
     curves |-> PathsCurves(paths, 1) \o ShapesCurves(shapes, 1)]

-----------------------------------------------------------------------------
(* The values of the program and their serialized form.  A value carries   *)
(* its type in t and its content in v: a dict is a function of its keys, a *)
(* list or a tuple a sequence.  A JSON value carries its kind in k; the    *)
(* number literals are kept apart by their form (integer, with a fraction, *)
(* NaN), as json.load reads them.                                          *)

NaN == <<"nan">>      \* float('nan'), which float() reads from an attribute
IsNaN(q) == Len(q) = 1

PyBool(b) == [t |-> "bool", v |-> b]
PyInt(n) == [t |-> "int", v |-> n]
PyFloat(q) == [t |-> "float", v |-> q]
PyStr(c) == [t |-> "str", v |-> c]
PyList(q) == [t |-> "list", v |-> q]
PyTuple(q) == [t |-> "tuple", v |-> q]
PyDict(f) == [t |-> "dict", v |-> f]

\* json.dump(data, f, indent=2)
RECURSIVE dumps(_)
dumps(o) ==
    CASE o.t = "dict" -> [k |-> "object", v |-> [key \in DOMAIN o.v |-> dumps(o.v[key])]]
      [] o.t \in {"list", "tuple"} ->
            [k |-> "array", v |-> [i \in 1..Len(o.v) |-> dumps(o.v[i])]]
      [] o.t = "str" -> [k |-> "string", v |-> o.v]
      [] o.t = "bool" -> [k |-> (IF o.v THEN "true" ELSE "false"), v |-> <<>>]
      [] o.t = "int" -> [k |-> "integer", v |-> o.v]
      [] o.t = "float" -> IF IsNaN(o.v) THEN [k |-> "NaN", v |-> <<>>]
                          ELSE [k |-> "fraction", v |-> o.v]

\* mutant: every number is read as a float
RECURSIVE loads_AllFloats(_)
loads_AllFloats(j) ==
    CASE j.k = "object" -> PyDict([key \in DOMAIN j.v |-> loads_AllFloats(j.v[key])])
      [] j.k = "array" -> PyList([i \in 1..Len(j.v) |-> loads_AllFloats(j.v[i])])
      [] j.k = "string" -> PyStr(j.v)
      [] j.k = "true" -> PyBool(TRUE)
      [] j.k = "false" -> PyBool(FALSE)
      [] j.k = "integer" -> PyFloat(R(j.v))
      [] j.k = "fraction" -> PyFloat(j.v)
      [] j.k = "NaN" -> PyFloat(NaN)

\* json.load(f)
RECURSIVE loads(_)
loads(j) ==
    CASE j.k = "object" -> PyDict([key \in DOMAIN j.v |-> loads(j.v[key])])
      [] j.k = "array" -> PyList([i \in 1..Len(j.v) |-> loads(j.v[i])])
      [] j.k = "string" -> PyStr(j.v)
      [] j.k = "true" -> PyBool(TRUE)
      [] j.k = "false" -> PyBool(FALSE)
      [] j.k = "integer" -> PyInt(j.v)
      [] j.k = "fraction" -> PyFloat(j.v)
      [] j.k = "NaN" -> PyFloat(NaN)

\* the value of a number in a comparison
NumVal(o) ==
    IF o.t = "int" THEN R(o.v)
    ELSE IF o.t = "bool" THEN R(IF o.v THEN 1 ELSE 0)
    ELSE o.v

\* a == b
RECURSIVE PyEq(_, _)
PyEq(a, b) ==
    IF a.t \in {"int", "float", "bool"} /\ b.t \in {"int", "float", "bool"}
    THEN /\ ~(a.t = "float" /\ IsNaN(a.v))
         /\ ~(b.t = "float" /\ IsNaN(b.v))
         /\ NumVal(a) = NumVal(b)
    ELSE IF a.t # b.t THEN FALSE
    ELSE IF a.t = "str" THEN a.v = b.v
    ELSE IF a.t \in {"list", "tuple"}
    THEN /\ Len(a.v) = Len(b.v)
         /\ \A i \in 1..Len(a.v) : PyEq(a.v[i], b.v[i])
    ELSE /\ DOMAIN a.v = DOMAIN b.v
         /\ \A key \in DOMAIN a.v : PyEq(a.v[key], b.v[key])

\* (x, y) of a point
PyPoint(p) == PyTuple(<<PyFloat(p[1]), PyFloat(p[2])>>)
PyPoints(ps) == PyList([i \in 1..Len(ps) |-> PyPoint(ps[i])])

\* parse_segment: segment_data['data'] (an arc's radius, rotation and flags
\* are the same in every arc of these documents)
PySegData(seg) ==
    CASE seg.operation = "l" ->
            PyDict([start |-> PyPoint(seg.data.start), end |-> PyPoint(seg.data.end),
                    length |-> PyFloat(seg.data.length)])
      [] seg.operation = "c" ->
            PyDict([start |-> PyPoint(seg.data.start),
                    control1 |-> PyPoint(seg.data.control1),
                    control2 |-> PyPoint(seg.data.control2),
                    end |-> PyPoint(seg.data.end)])
      [] seg.operation = "q" ->
            PyDict([start |-> PyPoint(seg.data.start),
                    control |-> PyPoint(seg.data.control),
                    end |-> PyPoint(seg.data.end)])
      [] seg.operation = "a" ->
            PyDict([start |-> PyPoint(seg.data.start), radius |-> PyPoint(Pt(5, 5)),
                    rotation |-> PyFloat(R(0)), arc |-> PyBool(FALSE),
                    sweep |-> PyBool(TRUE), end |-> PyPoint(seg.data.end)])
      [] seg.operation \in {"m", "z"} ->
            PyDict([start |-> PyPoint(seg.data.start), end |-> PyPoint(seg.data.end)])

\* parse_segment: segment_data
PySegment(seg) ==
    PyDict([type |-> PyStr(seg.type), operation |-> PyStr(seg.operation),
            data |-> PySegData(seg)])

\* extract_path_elements: path_data
PyPath(segs) ==
    PyDict([type |-> PyStr("path"), d |-> PyStr("d"), fill |-> PyStr("none"),
            stroke |-> PyStr("none"), stroke_width |-> PyStr("1"),
            segments |-> PyList([i \in 1..Len(segs) |-> PySegment(segs[i])])])

\* extract_shape_elements: the dict appended for one element
PyShape(shape) ==
    CASE shape.type = "rectangle" ->
            PyDict([type |-> PyStr(shape.type), x |-> PyFloat(shape.x),
                    y |-> PyFloat(shape.y), width |-> PyFloat(shape.width),
                    height |-> PyFloat(shape.height),
                    corners |-> PyPoints(shape.corners),
                    fill |-> PyStr("none"), stroke |-> PyStr("none")])
      [] shape.type = "circle" ->
            PyDict([type |-> PyStr(shape.type), center |-> PyPoint(shape.center),
                    radius |-> PyFloat(shape.radius),
                    fill |-> PyStr("none"), stroke |-> PyStr("none")])
      [] shape.type = "ellipse" ->
            PyDict([type |-> PyStr(shape.type), center |-> PyPoint(shape.center),
                    radius_x |-> PyFloat(shape.radius_x),
                    radius_y |-> PyFloat(shape.radius_y),
                    fill |-> PyStr("none"), stroke |-> PyStr("none")])
      [] shape.type = "line" ->
            PyDict([type |-> PyStr(shape.type), start |-> PyPoint(shape.start),
                    end |-> PyPoint(shape.end), length |-> PyFloat(shape.length),
                    stroke |-> PyStr("none")])
      [] shape.type \in {"polyline", "polygon"} ->
            PyDict([type |-> PyStr(shape.type), points |-> PyPoints(shape.points),
                    num_points |-> PyInt(shape.num_points),
                    closed |-> PyBool(shape.closed),
                    fill |-> PyStr("none"), stroke |-> PyStr("none")])

\* categorize_vectors: one entry of lines
PyCatLine(l) ==
    PyDict([type |-> PyStr(l.type), start |-> PyPoint(l.start), end |-> PyPoint(l.end),
            length |-> PyFloat(l.length), source |-> PyStr(l.source)])

\* categorize_vectors: one entry of curves
PyCatCurve(c) ==
    IF c.source = "path"
    THEN PyDict([type |-> PyStr(c.type), operation |-> PyStr(c.operation),
                 data |-> PySegData(c), source |-> PyStr(c.source)])
    ELSE PyDict([type |-> PyStr(c.type), data |-> PyShape(c.data),
                 source |-> PyStr(c.source)])

\* export_to_json: data
Document(svg_path, results, paths, shapes, lines, curves) ==
    PyDict([file |-> PyStr(svg_path),
            svg_metadata |-> PyDict([viewBox |-> PyStr(results.viewBox),
                                     width |-> PyStr(results.width),
                                     height |-> PyStr(results.height)]),
            paths |-> paths, shapes |-> shapes, lines |-> lines, curves |-> curves,
            summary |-> PyDict([total_paths |-> PyInt(Len(paths.v)),
                                total_shapes |-> PyInt(Len(shapes.v)),
                                total_lines |-> PyInt(Len(lines.v)),
                                total_curves |-> PyInt(Len(curves.v))])])

\* the content of the file export_to_json writes
export_to_json(svg_path, results, paths, shapes, lines, curves) ==
    dumps(Document(svg_path, results, paths, shapes, lines, curves))

load_vector_data(json) == loads(json)

-----------------------------------------------------------------------------
(* The documents the walk reads.  A document is read item by item; doc     *)
(* records what has been read.  Its lists of lines and curves are the ones *)
(* categorize_vectors wrote for its paths and shapes.                      *)

P00 == Pt(0, 0)
Points == {Pt(0, 0), Pt(10, 0), Pt(10, 10)}
MovePoints == {Pt(0, 0), Pt(10, 10)}
Control1 == Pt(0, 10)
Control2 == Pt(10, 10)
CurveEnd == Pt(10, 0)

\* svg_metadata of the documents: no height and no viewBox; a height
\* attribute with a unit beside a viewBox; a viewBox alone
MetaNone == [height |-> NotSpecified, viewBox |-> NotSpecified]
MetaSet ==
    { MetaNone,
      [height |-> <<"2", "0", "p", "x">>, viewBox |-> <<"0", " ", "0", " ", "5", " ", "8">>],
      [height |-> NotSpecified, viewBox |-> <<"0", " ", "0", " ", "3", "0", " ", "1", "0">>] }

\* the calls: every document with layers, one without
CallSet == {<<m, TRUE>> : m \in MetaSet} \cup {<<MetaNone, FALSE>>}

\* the shapes of the documents with paths; the documents of shapes only
\* (SpecShapes) take theirs from wider sets
LineShapes == { LineShape(Pt(0, 0), Pt(10, 10)) }
RectShapes == { RectShape(R(0), R(0), R(10), R(5)) }
CircleShapes == { CircleShape(Pt(5, 5), R(3)), CircleShape(Pt(5, 5), R(0)) }
EllipseShapes == { EllipseShape(Pt(5, 5), R(2), R(3)) }
PolyShapes == { PolyShape("polygon", <<Pt(0, 0), Pt(10, 0), Pt(10, 10)>>) }

CurPath == doc.paths[Len(doc.paths)]

\* an item is a path, a segment or a shape
RECURSIVE SumLen(_)
SumLen(ss) == IF ss = <<>> THEN 0 ELSE 1 + Len(ss[1]) + SumLen(Tail(ss))
ItemsRead == SumLen(doc.paths) + Len(doc.shapes)

ZeroStats == [lines |-> 0, curves |-> 0, arcs |-> 0, circles |-> 0,
              ellipses |-> 0, polylines |-> 0, splines |-> 0]

PathLayer == IF layer_by_type THEN "PATHS" ELSE "0"
ShapeLayer == IF layer_by_type THEN "SHAPES" ELSE "0"
\* mutant: the categorized lines go to LINES whatever the option
LinesLayer_Always == "LINES"
LinesLayer == IF layer_by_type THEN "LINES" ELSE "0"
CurvesLayer == IF layer_by_type THEN "CURVES" ELSE "0"

\* the history kept beside msp: one record per entity that a step adds
Track(tag) == IF Len(msp') > Len(msp) THEN Append(origin, tag) ELSE origin

\* the history of the last step: its kind, and the accumulator and the
\* number of entities before it
Before(step) == [step |-> step, acc |-> polyline_points, n |-> Len(msp)]

-----------------------------------------------------------------------------
(* svg_to_dxf.py: create_dxf_from_vectors *)

SynthInit ==
    /\ pc = "begin"
    /\ \E c \in CallSet : svg_metadata = c[1] /\ layer_by_type = c[2]
    /\ svg_height = None
    /\ warnings = {}
    /\ stats = ZeroStats
    /\ msp = <<>>
    /\ current_point = None
    /\ polyline_points = <<>>
    /\ path_idx = 0
    /\ doc = [paths |-> <<>>, shapes |-> <<>>]
    /\ pen = [pos |-> P00, start |-> None]
    /\ origin = <<>>
    /\ acc_src = <<>>
    /\ prev = [step |-> "init", acc |-> <<>>, n |-> 0]
    /\ fn_arg = None
    /\ fn_ret = None

\* lines 62-89: resolve the height, create the drawing and the counters
\* mutant: the modelspace is not a new one
Begin_SharedModelspace ==
    /\ pc = "begin"
    /\ svg_height' = get_svg_height(svg_metadata)
    /\ warnings' = (IF svg_height' = None THEN {"get_svg_height"} ELSE {})
                   \cup (IF svg_height' = None \/ svg_height' = R(0)
                         THEN {"create_dxf_from_vectors"} ELSE {})
    /\ stats' = ZeroStats
    /\ pc' = "paths"
    /\ prev' = Before("begin")
    /\ UNCHANGED <<svg_metadata, layer_by_type, current_point, polyline_points,
                   path_idx, doc, pen, origin, acc_src, fn_arg, fn_ret, msp>>

Begin ==
    /\ pc = "begin"
    /\ svg_height' = get_svg_height(svg_metadata)
    /\ warnings' = (IF svg_height' = None THEN {"get_svg_height"} ELSE {})
                   \cup (IF svg_height' = None \/ svg_height' = R(0)
                         THEN {"create_dxf_from_vectors"} ELSE {})
    /\ stats' = ZeroStats
    /\ msp' = <<>>
    /\ pc' = "paths"
    /\ prev' = Before("begin")
    /\ UNCHANGED <<svg_metadata, layer_by_type, current_point, polyline_points,
                   path_idx, doc, pen, origin, acc_src, fn_arg, fn_ret>>

\* lines 95-100: a path without segments is skipped
EmptyPath ==
    /\ pc = "paths"
    /\ ItemsRead < MaxItems
    /\ path_idx' = path_idx + 1
    /\ doc' = [doc EXCEPT !.paths = Append(@, <<>>)]
    /\ prev' = Before("empty")
    /\ UNCHANGED <<pc, svg_metadata, layer_by_type, svg_height, warnings, stats,
                   msp, current_point, polyline_points, pen, origin, acc_src,
                   fn_arg, fn_ret>>

\* mutant: the accumulator of the previous path is kept
StartPath_NoReset ==
    /\ pc = "paths"
    /\ ItemsRead + 1 < MaxItems
    /\ path_idx' = path_idx + 1
    /\ doc' = [doc EXCEPT !.paths = Append(@, <<>>)]
    /\ current_point' = None
    /\ pen' = [pos |-> P00, start |-> None]
    /\ pc' = "segments"
    /\ prev' = Before("start")
    /\ UNCHANGED <<svg_metadata, layer_by_type, svg_height, warnings, stats, msp,
                   origin, fn_arg, fn_ret, polyline_points, acc_src>>

\* lines 95-107: a path with segments starts with a fresh accumulator
StartPath ==
    /\ pc = "paths"
    /\ ItemsRead + 1 < MaxItems
    /\ path_idx' = path_idx + 1
    /\ doc' = [doc EXCEPT !.paths = Append(@, <<>>)]
    /\ current_point' = None
    /\ polyline_points' = <<>>
    /\ acc_src' = <<>>
    /\ pen' = [pos |-> P00, start |-> None]
    /\ pc' = "segments"
    /\ prev' = Before("start")
    /\ UNCHANGED <<svg_metadata, layer_by_type, svg_height, warnings, stats, msp,
                   origin, fn_arg, fn_ret>>

\* lines 109-111: what every step of the segment loop does besides its branch
ReadSegment(seg, newpos, newstart) ==
    /\ pc = "segments"
    /\ ItemsRead < MaxItems
    /\ doc' = [doc EXCEPT !.paths[Len(doc.paths)] = Append(@, seg)]
    /\ pen' = [pos |-> newpos, start |-> newstart]
    /\ prev' = Before("segment")
    /\ UNCHANGED <<pc, svg_metadata, layer_by_type, svg_height, warnings, path_idx,
                   fn_arg, fn_ret>>

Flushable == polyline_points # <<>> /\ Len(polyline_points) > 1

\* lines 113-123
OnMove(seg) ==
    LET flush == Flushable
        newmsp == IF flush
                  THEN add_polyline(msp, polyline_points, PathLayer, svg_height, FALSE)
                  ELSE msp
        kept == IF flush THEN <<>> ELSE polyline_points
        keptsrc == IF flush THEN <<>> ELSE acc_src
    IN  /\ msp' = newmsp
        /\ origin' = Track([from |-> "acc", path |-> path_idx,
                                    src |-> polyline_points, pt_paths |-> acc_src])
        /\ stats' = IF flush THEN [stats EXCEPT !.polylines = @ + 1] ELSE stats
        /\ current_point' = seg.data.end
        /\ polyline_points' = Append(kept, seg.data.end)
        /\ acc_src' = Append(keptsrc, path_idx)

\* mutant: the accumulator is not seeded with the segment's start
OnLine_NoSeed(seg) ==
    /\ polyline_points' = Append(polyline_points, seg.data.end)
    /\ acc_src' = Append(acc_src, path_idx)
    /\ current_point' = seg.data.end
    /\ stats' = [stats EXCEPT !.lines = @ + 1]
    /\ UNCHANGED <<msp, origin>>

\* lines 125-134
OnLine(seg) ==
    LET seeded == IF polyline_points = <<>> THEN <<seg.data.start>> ELSE polyline_points
        seededsrc == IF polyline_points = <<>> THEN <<path_idx>> ELSE acc_src
    IN  /\ polyline_points' = Append(seeded, seg.data.end)
        /\ acc_src' = Append(seededsrc, path_idx)
        /\ current_point' = seg.data.end
        /\ stats' = [stats EXCEPT !.lines = @ + 1]
        /\ UNCHANGED <<msp, origin>>

\* lines 136-157
OnCubic(seg) ==
    LET start == flip_y(seg.data.start, svg_height)
        control1 == flip_y(seg.data.control1, svg_height)
        control2 == flip_y(seg.data.control2, svg_height)
        end == flip_y(seg.data.end, svg_height)
        points == approximate_cubic_bezier(start, control1, control2, end, CubicNumPoints)
        newmsp == add_spline(msp, points, 3, PathLayer)
    IN  /\ msp' = newmsp
        /\ origin' = Track([from |-> "cubic", path |-> path_idx, seg |-> seg])
        /\ stats' = [stats EXCEPT !.splines = @ + 1]
        /\ current_point' = end
        /\ UNCHANGED <<polyline_points, acc_src>>

\* mutant: the flattened points, already flipped, are flipped again on emission
OnQuad_FlipTwice(seg) ==
    LET start == flip_y(seg.data.start, svg_height)
        control == flip_y(seg.data.control, svg_height)
        end == flip_y(seg.data.end, svg_height)
        points == approximate_quadratic_bezier(start, control, end, QuadNumPoints)
        newmsp == add_polyline(msp, points, PathLayer, svg_height, FALSE)
    IN  /\ msp' = newmsp
        /\ origin' = Track([from |-> "quad", path |-> path_idx, seg |-> seg])
        /\ stats' = [stats EXCEPT !.polylines = @ + 1]
        /\ current_point' = end
        /\ UNCHANGED <<polyline_points, acc_src>>

\* lines 159-177
OnQuad(seg) ==
    LET start == flip_y(seg.data.start, svg_height)
        control == flip_y(seg.data.control, svg_height)
        end == flip_y(seg.data.end, svg_height)
        points == approximate_quadratic_bezier(start, control, end, QuadNumPoints)
        newmsp == add_polyline(msp, points, PathLayer, None, FALSE)
    IN  /\ msp' = newmsp
        /\ origin' = Track([from |-> "quad", path |-> path_idx, seg |-> seg])
        /\ stats' = [stats EXCEPT !.polylines = @ + 1]
        /\ current_point' = end
        /\ UNCHANGED <<polyline_points, acc_src>>

\* mutant: the arc's end joins the accumulated polyline
OnArc_Accumulate(seg) ==
    LET points == <<seg.data.start, seg.data.end>>
        newmsp == add_polyline(msp, points, PathLayer, svg_height, FALSE)
    IN  /\ msp' = newmsp
        /\ origin' = Track([from |-> "arc", path |-> path_idx, seg |-> seg])
        /\ stats' = [stats EXCEPT !.arcs = @ + 1]
        /\ current_point' = seg.data.end
        /\ polyline_points' = Append(polyline_points, seg.data.end)
        /\ acc_src' = Append(acc_src, path_idx)

\* lines 179-190
OnArc(seg) ==
    LET points == <<seg.data.start, seg.data.end>>
        newmsp == add_polyline(msp, points, PathLayer, svg_height, FALSE)
    IN  /\ msp' = newmsp
        /\ origin' = Track([from |-> "arc", path |-> path_idx, seg |-> seg])
        /\ stats' = [stats EXCEPT !.arcs = @ + 1]
        /\ current_point' = seg.data.end
        /\ UNCHANGED <<polyline_points, acc_src>>

\* mutant: the flushed polyline is not closed
OnClose_Open(seg) ==
    LET flush == Flushable
        newmsp == IF flush
                  THEN add_polyline(msp, polyline_points, PathLayer, svg_height, FALSE)
                  ELSE msp
    IN  /\ msp' = newmsp
        /\ origin' = Track([from |-> "acc", path |-> path_idx,
                                    src |-> polyline_points, pt_paths |-> acc_src])
        /\ stats' = IF flush THEN [stats EXCEPT !.polylines = @ + 1] ELSE stats
        /\ polyline_points' = IF flush THEN <<>> ELSE polyline_points
        /\ acc_src' = IF flush THEN <<>> ELSE acc_src
        /\ UNCHANGED current_point

\* lines 192-198
OnClose(seg) ==
    LET flush == Flushable
        newmsp == IF flush
                  THEN add_polyline(msp, polyline_points, PathLayer, svg_height, TRUE)
                  ELSE msp
    IN  /\ msp' = newmsp
        /\ origin' = Track([from |-> "acc", path |-> path_idx,
                                    src |-> polyline_points, pt_paths |-> acc_src])
        /\ stats' = IF flush THEN [stats EXCEPT !.polylines = @ + 1] ELSE stats
        /\ polyline_points' = IF flush THEN <<>> ELSE polyline_points
        /\ acc_src' = IF flush THEN <<>> ELSE acc_src
        /\ UNCHANGED current_point

\* the segments a path can hold next: each starts where the last one ended
SegMove == \E p \in MovePoints :
    ReadSegment(MoveSeg(p), p, p) /\ OnMove(MoveSeg(p))

SegLine == \E p \in Points \ {pen.pos} :
    ReadSegment(LineSeg(pen.pos, p), p, pen.start) /\ OnLine(LineSeg(pen.pos, p))

SegCubic ==
    LET seg == CubicSeg(pen.pos, Control1, Control2, CurveEnd) IN
    ReadSegment(seg, CurveEnd, pen.start) /\ OnCubic(seg)

SegQuad ==
    LET seg == QuadSeg(pen.pos, Control1, Control2) IN
    ReadSegment(seg, Control2, pen.start) /\ OnQuad(seg)

SegArc ==
    LET seg == ArcSeg(pen.pos, CurveEnd) IN
    ReadSegment(seg, CurveEnd, pen.start) /\ OnArc(seg)

SegClose ==
    /\ pen.start # None
    /\ LET seg == CloseSeg(pen.pos, pen.start) IN
       ReadSegment(seg, pen.start, pen.start) /\ OnClose(seg)

\* mutant: what is accumulated at the end of the path is not flushed
EndPath_NoFlush ==
    /\ pc = "segments"
    /\ CurPath # <<>>
    /\ pc' = "paths"
    /\ prev' = Before("end")
    /\ UNCHANGED <<svg_metadata, layer_by_type, svg_height, warnings, current_point,
                   polyline_points, path_idx, doc, pen, acc_src, fn_arg, fn_ret,
                   msp, origin, stats>>

\* lines 200-203: the end of a path's segments
EndPath ==
    /\ pc = "segments"
    /\ CurPath # <<>>
    /\ LET flush == Flushable
           newmsp == IF flush
                     THEN add_polyline(msp, polyline_points, PathLayer, svg_height, FALSE)
                     ELSE msp
       IN  /\ msp' = newmsp
           /\ origin' = Track([from |-> "acc", path |-> path_idx,
                                       src |-> polyline_points, pt_paths |-> acc_src])
           /\ stats' = IF flush THEN [stats EXCEPT !.polylines = @ + 1] ELSE stats
    /\ pc' = "paths"
    /\ prev' = Before("end")
    /\ UNCHANGED <<svg_metadata, layer_by_type, svg_height, warnings, current_point,
                   polyline_points, path_idx, doc, pen, acc_src, fn_arg, fn_ret>>

\* lines 206-209: what every step of the shape loop does besides its branch
ReadShape(shape) ==
    /\ pc \in {"paths", "shapes"}
    /\ Len(doc.shapes) < MaxShapes
    /\ ItemsRead < MaxItems
    /\ doc' = [doc EXCEPT !.shapes = Append(@, shape)]
    /\ pc' = "shapes"
    /\ prev' = Before("shape")
    /\ UNCHANGED <<svg_metadata, layer_by_type, svg_height, warnings, current_point,
                   polyline_points, path_idx, pen, acc_src, fn_arg, fn_ret>>

ShapeTag(shape) == [from |-> "shape", path |-> 0, shape |-> shape]

\* lines 211-215
OnShapeLine(shape) ==
    LET newmsp == add_line(msp, shape.start, shape.end, ShapeLayer, svg_height)
    IN  /\ msp' = newmsp
        /\ origin' = Track(ShapeTag(shape))
        /\ stats' = [stats EXCEPT !.lines = @ + 1]

\* lines 217-221
OnShapeRect(shape) ==
    LET fits == Len(shape.corners) = 4
        newmsp == IF fits
                  THEN add_polyline(msp, shape.corners, ShapeLayer, svg_height, TRUE)
                  ELSE msp
    IN  /\ msp' = newmsp
        /\ origin' = Track(ShapeTag(shape))
        /\ stats' = IF fits THEN [stats EXCEPT !.polylines = @ + 1] ELSE stats

\* lines 223-227
OnShapeCircle(shape) ==
    LET newmsp == add_circle(msp, shape.center, shape.radius, ShapeLayer, svg_height)
    IN  /\ msp' = newmsp
        /\ origin' = Track(ShapeTag(shape))
        /\ stats' = [stats EXCEPT !.circles = @ + 1]

\* lines 229-234
OnShapeEllipse(shape) ==
    LET newmsp == add_ellipse(msp, shape.center, shape.radius_x, shape.radius_y,
                              ShapeLayer, svg_height)
    IN  /\ msp' = newmsp
        /\ origin' = Track(ShapeTag(shape))
        /\ stats' = [stats EXCEPT !.ellipses = @ + 1]

\* lines 236-241
OnShapePoly(shape) ==
    LET some == shape.points # <<>>
        newmsp == IF some
                  THEN add_polyline(msp, shape.points, ShapeLayer, svg_height, shape.closed)
                  ELSE msp
    IN  /\ msp' = newmsp
        /\ origin' = Track(ShapeTag(shape))
        /\ stats' = IF some THEN [stats EXCEPT !.polylines = @ + 1] ELSE stats

ShapeLine == \E s \in LineShapes : ReadShape(s) /\ OnShapeLine(s)
ShapeRect == \E s \in RectShapes : ReadShape(s) /\ OnShapeRect(s)
ShapeCircle == \E s \in CircleShapes : ReadShape(s) /\ OnShapeCircle(s)
ShapeEllipse == \E s \in EllipseShapes : ReadShape(s) /\ OnShapeEllipse(s)
ShapePoly == \E s \in PolyShapes : ReadShape(s) /\ OnShapePoly(s)

\* lines 244-249: every categorized line is added; w is [m, o], the
\* modelspace and its history
RECURSIVE WalkLines(_, _, _)
WalkLines(w, lines, i) ==
    IF i > Len(lines) THEN w
    ELSE WalkLines(
            [m |-> add_line(w.m, lines[i].start, lines[i].end, LinesLayer, svg_height),
             o |-> Append(w.o, [from |-> "lines", path |-> 0, line |-> lines[i]])],
            lines, i + 1)

\* mutant: the ellipse branch is missing
OnCurve_CirclesOnly(w, curve) ==
    IF curve.type = "circle" /\ "center" \in DOMAIN curve.data
    THEN LET m2 == add_circle(w.m, curve.data.center, curve.data.radius,
                              CurvesLayer, svg_height)
         IN  [m |-> m2,
              o |-> IF Len(m2) > Len(w.m)
                    THEN Append(w.o, [from |-> "curves", path |-> 0, curve |-> curve])
                    ELSE w.o,
              st |-> [w.st EXCEPT !.circles = @ + 1]]
    ELSE w

\* lines 252-269: the circles and ellipses among the categorized curves
\* are added; w is [m, o, st], with st the counters
OnCurve(w, curve) ==
    IF curve.type = "circle" /\ "center" \in DOMAIN curve.data
    THEN LET m2 == add_circle(w.m, curve.data.center, curve.data.radius,
                              CurvesLayer, svg_height)
         IN  [m |-> m2,
              o |-> IF Len(m2) > Len(w.m)
                    THEN Append(w.o, [from |-> "curves", path |-> 0, curve |-> curve])
                    ELSE w.o,
              st |-> [w.st EXCEPT !.circles = @ + 1]]
    ELSE IF curve.type = "ellipse" /\ "center" \in DOMAIN curve.data
    THEN LET m2 == add_ellipse(w.m, curve.data.center, curve.data.radius_x,
                               curve.data.radius_y, CurvesLayer, svg_height)
         IN  [m |-> m2,
              o |-> IF Len(m2) > Len(w.m)
                    THEN Append(w.o, [from |-> "curves", path |-> 0, curve |-> curve])
                    ELSE w.o,
              st |-> [w.st EXCEPT !.ellipses = @ + 1]]
    ELSE w

RECURSIVE WalkCurves(_, _, _)
WalkCurves(w, curves, i) ==
    IF i > Len(curves) THEN w ELSE WalkCurves(OnCurve(w, curves[i]), curves, i + 1)

\* lines 243-274: the categorized lines and curves are walked, the drawing
\* is saved and the counters are returned
Finish ==
    /\ pc \in {"paths", "shapes"}
    /\ \E cat \in {categorize_vectors(doc.paths, doc.shapes)} :
       \E wl \in {WalkLines([m |-> msp, o |-> origin], cat.lines, 1)} :
       \E wc \in {WalkCurves([m |-> wl.m, o |-> wl.o, st |-> stats], cat.curves, 1)} :
           /\ msp' = wc.m
           /\ origin' = wc.o
           /\ stats' = wc.st
    /\ pc' = "done"
    /\ prev' = Before("finish")
    /\ UNCHANGED <<svg_metadata, layer_by_type, svg_height, warnings, current_point,
                   polyline_points, path_idx, doc, pen, acc_src, fn_arg, fn_ret>>

Next ==
    \/ Begin
    \/ EmptyPath
    \/ StartPath
    \/ SegMove
    \/ SegLine
    \/ SegCubic
    \/ SegQuad
    \/ SegArc
    \/ SegClose
    \/ EndPath
    \/ ShapeLine
    \/ ShapeRect
    \/ ShapeCircle
    \/ ShapeEllipse
    \/ ShapePoly
    \/ Finish

Spec == SynthInit /\ [][Next]_vars

-----------------------------------------------------------------------------
(* Documents of shapes only, the shapes drawn from wider sets: radii that  *)
(* are zero or negative, rectangles of several sizes, point lists of every *)
(* length up to four.                                                      *)

AnyLines == { LineShape(Pt(0, 0), Pt(10, 10)), LineShape(Pt(3, 4), Pt(3, 4)) }
AnyRects ==
    { RectShape(R(x), R(y), R(w), R(h)) :
        x \in {0, 2}, y \in {1}, w \in {10, 3}, h \in {5} }
    \cup { RectShape(R(0), R(0), R(0), R(5)) }
AnyCircles == { CircleShape(Pt(5, 5), r) : r \in {R(3), <<1, 2>>, R(0), R(-1)} }
AnyEllipses ==
    { EllipseShape(Pt(5, 5), R(rx), R(ry)) :
        rx \in {3, 2, 0, -1}, ry \in {2, 0} }
    \cup { EllipseShape(Pt(5, 5), R(2), R(3)), EllipseShape(Pt(5, 5), R(2), R(-1)) }
AnyPoints == <<Pt(0, 0), Pt(10, 0), Pt(10, 10), Pt(0, 10)>>
AnyPolys ==
    { PolyShape(tag, SubSeq(AnyPoints, 1, n)) :
        tag \in {"polyline", "polygon"}, n \in 0..4 }

AnyLine == \E s \in AnyLines : ReadShape(s) /\ OnShapeLine(s)
AnyRect == \E s \in AnyRects : ReadShape(s) /\ OnShapeRect(s)
AnyCircle == \E s \in AnyCircles : ReadShape(s) /\ OnShapeCircle(s)
AnyEllipse == \E s \in AnyEllipses : ReadShape(s) /\ OnShapeEllipse(s)
AnyPoly == \E s \in AnyPolys : ReadShape(s) /\ OnShapePoly(s)

ShapesNext ==
    \/ Begin
    \/ AnyLine
    \/ AnyRect
    \/ AnyCircle
    \/ AnyEllipse
    \/ AnyPoly
    \/ Finish

SpecShapes == SynthInit /\ [][ShapesNext]_vars

-----------------------------------------------------------------------------
(* A document of one path of at most MaxWalk segments, one call. The       *)
(* segment loop is a for loop over a finite list: a path whose segments    *)
(* are being read is read to its end.                                      *)

WalkInit ==
    /\ SynthInit
    /\ layer_by_type
    /\ svg_metadata.height # NotSpecified

CanRead == pc = "segments" /\ Len(CurPath) < MaxWalk

WalkNext ==
    \/ Begin
    \/ (path_idx = 0 /\ StartPath)
    \/ (CanRead /\ SegMove)
    \/ (CanRead /\ SegLine)
    \/ (CanRead /\ SegCubic)
    \/ (CanRead /\ SegQuad)
    \/ (CanRead /\ SegClose)
    \/ EndPath
    \/ Finish

SpecWalk == WalkInit /\ [][WalkNext]_vars /\ WF_vars(EndPath)

-----------------------------------------------------------------------------
(* create_dxf_from_vectors called twice on the same document with the same *)
(* option.  The first call reads a document of at most MaxReplay items;    *)
(* fn_arg then keeps that document and fn_ret the entities and counters of *)
(* the first call, and the second call reads the same document again.      *)
(* Whatever the first call bound and the second does not bind anew at its  *)
(* entry is left as the first call left it.                                *)

FirstCall ==
    /\ fn_arg = None
    /\ Next
    /\ ItemsRead' <= MaxReplay

\* the second call is entered: the document is read from its start
Again ==
    /\ pc = "done" /\ fn_arg = None
    /\ fn_arg' = [vector_data |-> doc]
    /\ fn_ret' = [msp |-> msp, stats |-> stats]
    /\ pc' = "begin"
    /\ doc' = [paths |-> <<>>, shapes |-> <<>>]
    /\ pen' = [pos |-> P00, start |-> None]
    /\ path_idx' = 0
    /\ origin' = <<>>
    /\ prev' = Before("again")
    /\ UNCHANGED <<svg_metadata, layer_by_type, svg_height, warnings, stats, msp,
                   current_point, polyline_points, acc_src>>

\* what has been read in the second call is the start of the document of
\* the first call
Replays ==
    LET rec == fn_arg.vector_data
        np == Len(doc.paths)
    IN  /\ np <= Len(rec.paths)
        /\ Len(doc.shapes) <= Len(rec.shapes)
        /\ \A k \in 1..(np - 1) : doc.paths[k] = rec.paths[k]
        /\ doc.shapes = SubSeq(rec.shapes, 1, Len(doc.shapes))
        /\ np > 0 =>
              IF pc = "segments"
              THEN /\ rec.paths[np] # <<>>
                   /\ Len(doc.paths[np]) <= Len(rec.paths[np])
                   /\ doc.paths[np] = SubSeq(rec.paths[np], 1, Len(doc.paths[np]))
              ELSE doc.paths[np] = rec.paths[np]
        /\ pc \in {"shapes", "done"} => doc.paths = rec.paths
        /\ pc = "done" => doc = rec

SecondCall ==
    /\ fn_arg # None
    /\ Next
    /\ Replays'

TwiceNext == FirstCall \/ Again \/ SecondCall

SpecTwice == SynthInit /\ [][TwiceNext]_vars

-----------------------------------------------------------------------------
(* The pure functions called on their own.  fn_arg holds the arguments of  *)
(* one call, fn_ret its result; the synthesis state stays as constructed.  *)

Idle ==
    /\ svg_metadata = MetaNone
    /\ layer_by_type = TRUE
    /\ svg_height = None
    /\ warnings = {}
    /\ stats = ZeroStats
    /\ msp = <<>>
    /\ current_point = None
    /\ polyline_points = <<>>
    /\ path_idx = 0
    /\ doc = [paths |-> <<>>, shapes |-> <<>>]
    /\ pen = [pos |-> P00, start |-> None]
    /\ origin = <<>>
    /\ acc_src = <<>>
    /\ prev = [step |-> "init", acc |-> <<>>, n |-> 0]

\* the sequences over S of length at most n
SeqsUpTo(S, n) == UNION {[1..k -> S] : k \in 0..n}

(* categorize_vectors called on its own: on what the extractor writes and  *)
(* on records whose stored length is not the distance of their end points. *)

\* a Line segment and a line shape with a stored length of 1
LongLineSeg == [LineSeg(Pt(0, 0), Pt(10, 0)) EXCEPT !.data.length = Sqrt(R(1))]
LongLineShape == [LineShape(Pt(0, 0), Pt(0, 10)) EXCEPT !.length = Sqrt(R(1))]

CatPaths ==
    { << MoveSeg(Pt(0, 0)), LineSeg(Pt(0, 0), Pt(10, 0)), LineSeg(Pt(10, 0), Pt(10, 10)),
         CloseSeg(Pt(10, 10), Pt(0, 0)) >>,
      << MoveSeg(Pt(0, 0)), CubicSeg(Pt(0, 0), Control1, Control2, CurveEnd),
         LineSeg(CurveEnd, Pt(0, 0)) >>,
      << MoveSeg(Pt(10, 10)), QuadSeg(Pt(10, 10), Control1, Pt(0, 0)),
         ArcSeg(Pt(0, 0), CurveEnd) >>,
      << MoveSeg(Pt(0, 0)), LongLineSeg >> }

CatShapes ==
    { LineShape(Pt(0, 0), Pt(10, 10)), LongLineShape,
      RectShape(R(2), R(1), R(3), R(5)),
      CircleShape(Pt(5, 5), R(3)), EllipseShape(Pt(5, 5), R(2), R(3)) }
    \cup { PolyShape("polygon", SubSeq(AnyPoints, 1, n)) : n \in {0, 2, 3, 4} }
    \cup { PolyShape("polyline", SubSeq(AnyPoints, 1, n)) : n \in {1, 3} }

CategorizeInit ==
    /\ pc = "call"
    /\ fn_arg \in [paths : SeqsUpTo(CatPaths, MaxCatPaths),
                   shapes : SeqsUpTo(CatShapes, MaxShapes)]
    /\ fn_ret = None
    /\ Idle

CallCategorize ==
    /\ pc = "call"
    /\ fn_ret' = categorize_vectors(fn_arg.paths, fn_arg.shapes)
    /\ pc' = "categorized"
    /\ UNCHANGED <<fn_arg, synth_vars>>

CategorizeNext == CallCategorize

SpecCategorize == CategorizeInit /\ [][CategorizeNext]_vars

(* export_to_json and load_vector_data called in turn on what the         *)
(* extractor writes for a drawing: fn_arg holds the extractor's lists,     *)
(* fn_ret the document, then the file, then the document read back.        *)

JsonResults ==
    { [viewBox |-> NotSpecified, width |-> NotSpecified, height |-> NotSpecified],
      [viewBox |-> <<"0", " ", "0", " ", "5", " ", "8">>, width |-> <<"5">>,
       height |-> <<"8">>] }

JsonPaths ==
    { << MoveSeg(Pt(0, 0)), LineSeg(Pt(0, 0), Pt(10, 0)), LineSeg(Pt(10, 0), Pt(10, 10)),
         CloseSeg(Pt(10, 10), Pt(0, 0)) >>,
      << MoveSeg(Pt(0, 0)), CubicSeg(Pt(0, 0), Control1, Control2, CurveEnd),
         LineSeg(CurveEnd, Pt(0, 0)) >>,
      << MoveSeg(Pt(10, 10)), QuadSeg(Pt(10, 10), Control1, Pt(0, 0)),
         ArcSeg(Pt(0, 0), CurveEnd) >> }

\* one shape of every kind, a circle whose r attribute is "nan", and a
\* polyline without points
JsonShapes ==
    { LineShape(Pt(0, 0), Pt(10, 10)), RectShape(R(2), R(1), R(3), R(5)),
      CircleShape(Pt(5, 5), R(3)), CircleShape(Pt(5, 5), NaN),
      EllipseShape(Pt(5, 5), R(2), R(3)),
      PolyShape("polygon", SubSeq(AnyPoints, 1, 3)), PolyShape("polyline", <<>>) }

JsonInit ==
    /\ pc = "call"
    /\ fn_arg \in [svg_path : {"drawing.svg"}, results : JsonResults,
                   paths : SeqsUpTo(JsonPaths, MaxJsonItems),
                   shapes : SeqsUpTo(JsonShapes, MaxJsonItems)]
    /\ Len(fn_arg.paths) + Len(fn_arg.shapes) <= MaxJsonItems
    /\ fn_ret = None
    /\ Idle

\* the lists main() hands to export_to_json
ExportArgs(F(_, _, _, _, _, _)) ==
    LET cat == categorize_vectors(fn_arg.paths, fn_arg.shapes)
    IN  F(fn_arg.svg_path, fn_arg.results,
          PyList([i \in 1..Len(fn_arg.paths) |-> PyPath(fn_arg.paths[i])]),
          PyList([i \in 1..Len(fn_arg.shapes) |-> PyShape(fn_arg.shapes[i])]),
          PyList([i \in 1..Len(cat.lines) |-> PyCatLine(cat.lines[i])]),
          PyList([i \in 1..Len(cat.curves) |-> PyCatCurve(cat.curves[i])]))

CallExport ==
    /\ pc = "call"
    /\ fn_ret' = [doc |-> ExportArgs(Document), file |-> ExportArgs(export_to_json)]
    /\ pc' = "exported"
    /\ UNCHANGED <<fn_arg, synth_vars>>

CallLoad ==
    /\ pc = "exported"
    /\ fn_ret' = [doc |-> fn_ret.doc, file |-> fn_ret.file,
                  data |-> load_vector_data(fn_ret.file)]
    /\ pc' = "loaded"
    /\ UNCHANGED <<fn_arg, synth_vars>>

JsonNext == CallExport \/ CallLoad

SpecJson == JsonInit /\ [][JsonNext]_vars

(* The extractor's main() on one SVG file: the elements of the document    *)
(* are given to extract_path_elements and to extract_shape_elements; the   *)
(* JSON file is written when neither raises, and the except clause of      *)
(* main() is reached when one does.                                        *)

PathElems ==
    { [tag |-> "path", d |-> <<>>],
      [tag |-> "path", d |-> << [cls |-> "Move", start |-> Pt(0, 0), end |-> Pt(0, 0)],
                                [cls |-> "Line", start |-> Pt(0, 0), end |-> Pt(10, 0)] >>],
      [tag |-> "path", d |-> << [cls |-> "Move", start |-> Pt(10, 10), end |-> Pt(10, 10)],
                                [cls |-> "CubicBezier", start |-> Pt(10, 10),
                                 control1 |-> Control1, control2 |-> Control2,
                                 end |-> CurveEnd] >>],
      [tag |-> "path", d |-> << [cls |-> "Move", start |-> Pt(0, 0), end |-> Pt(0, 0)],
                                [cls |-> "Line", start |-> Pt(0, 0), end |-> Pt(10, 10)],
                                Unparseable >>],
      [tag |-> "path", d |-> << [cls |-> "Move", start |-> Pt(0, 0), end |-> Pt(0, 0)],
                                Unconvertible,
                                [cls |-> "Line", start |-> Pt(0, 0), end |-> Pt(10, 10)] >>] }

\* points="1,2 3,4", "1,2 3" (an odd number of coordinates), "1,x 3,4" (a
\* token that is no number), no points attribute; a circle
ShapeElems ==
    { [tag |-> "polyline", points |-> <<"1", ",", "2", " ", "3", ",", "4">>],
      [tag |-> "polygon", points |-> <<"1", ",", "2", " ", "3">>],
      [tag |-> "polyline", points |-> <<"1", ",", "x", " ", "3", ",", "4">>],
      [tag |-> "polygon", points |-> <<>>],
      [tag |-> "circle", cx |-> <<"5">>, cy |-> <<"5">>, r |-> <<"3">>] }

ExtractInit ==
    /\ pc = "call"
    /\ fn_arg \in SeqsUpTo(PathElems \cup ShapeElems, MaxElems)
    /\ fn_ret = None
    /\ Idle

\* line 607
CallExtractPaths ==
    /\ pc = "call"
    /\ fn_ret' = [paths |-> extract_path_elements(fn_arg)]
    /\ pc' = "paths_extracted"
    /\ UNCHANGED <<fn_arg, synth_vars>>

\* line 608
CallExtractShapes ==
    /\ pc = "paths_extracted"
    /\ fn_ret' = [paths |-> fn_ret.paths, shapes |-> extract_shape_elements(fn_arg)]
    /\ pc' = "shapes_extracted"
    /\ UNCHANGED <<fn_arg, synth_vars>>

\* lines 611-628: the file is exported
ExportFile ==
    /\ pc = "shapes_extracted" /\ ~fn_ret.shapes.raised
    /\ pc' = "exported"
    /\ UNCHANGED <<fn_arg, fn_ret, synth_vars>>

\* lines 630-633: the exception ends the processing of the file
CatchError ==
    /\ pc = "shapes_extracted" /\ fn_ret.shapes.raised
    /\ pc' = "failed"
    /\ UNCHANGED <<fn_arg, fn_ret, synth_vars>>

ExtractNext == CallExtractPaths \/ CallExtractShapes \/ ExportFile \/ CatchError

SpecExtract == ExtractInit /\ [][ExtractNext]_vars

-----------------------------------------------------------------------------
(* batch_svg_to_dxf.py: process_single_file_worker, SVGToDXFPipeline       *)
(*                                                                         *)
(* fn_arg is the input directory: the number of its SVG files. fn_ret is   *)
(* the pipeline object of the current run with its workers, beside the     *)
(* output and temp directories, which outlive the run:                     *)
(*   dxf[f]   the DXF of file f: the run that wrote it and the run whose   *)
(*            extraction wrote the JSON it was converted from (0: no DXF)  *)
(*   json[f]  the JSON of file f in the temp directory: the run whose      *)
(*            extraction wrote it (0: no file)                             *)

SvgFiles == 1..fn_arg.n

\* lines 38-45
NewResult == [success |-> FALSE, skipped |-> FALSE, error |-> "None", stage |-> "None"]

\* a task of the pool that no worker has taken yet
Queued == [pc |-> "queued", result |-> NewResult, ext |-> "none", conv |-> "none"]

NoDxf == [run |-> 0, json |-> 0]

\* what a stage's subprocess can do: end with exit code 0 and its output
\* file written, end with another exit code, end with exit code 0 and no
\* output file written (both stages catch the exceptions of one file and
\* go on), or not end within the timeout
StageOutcomes == {"ok", "exit", "silent", "timeout"}

BatchInit ==
    /\ pc = "call"
    /\ fn_arg \in [n : 0..MaxFiles]
    /\ fn_ret = [run |-> 0, phase |-> "idle", keep_json |-> FALSE,
                 stats |-> [total_files |-> 0, successful |-> 0, failed |-> 0,
                            skipped |-> 0],
                 errors |-> <<>>,
                 w |-> [f \in SvgFiles |-> Queued],
                 dxf |-> [f \in SvgFiles |-> NoDxf],
                 json |-> [f \in SvgFiles |-> 0],
                 returned |-> "none", summary |-> FALSE, interrupted |-> FALSE,
                 prev_ok |-> FALSE]
    /\ Idle

\* main lines 445-455, __init__ lines 159-195, run lines 287-317: a pipeline
\* object is constructed for every run; without SVG files run returns False
StartRun ==
    /\ fn_ret.phase \in {"idle", "finished"}
    /\ fn_ret.run < MaxRuns
    /\ \E k \in BOOLEAN :
        fn_ret' = [fn_ret EXCEPT
            !.run = @ + 1,
            !.keep_json = k,
            !.stats = [total_files |-> fn_arg.n, successful |-> 0, failed |-> 0,
                       skipped |-> 0],
            !.errors = <<>>,
            !.w = [f \in SvgFiles |-> Queued],
            !.phase = IF fn_arg.n = 0 THEN "finished" ELSE "pool",
            !.returned = IF fn_arg.n = 0 THEN "False" ELSE "none",
            !.summary = FALSE,
            !.interrupted = FALSE,
            !.prev_ok = fn_ret.summary /\ fn_ret.stats.failed = 0]
    /\ UNCHANGED <<pc, fn_arg, synth_vars>>

\* lines 150-153: the except clause of the worker
Raise(w, error) == [w EXCEPT !.pc = "done", !.result.error = error]

\* mutant: the existing DXF is not looked for
WorkerStart_NoSkip(f) ==
    /\ fn_ret.phase = "pool"
    /\ fn_ret.w[f].pc = "queued"
    /\ fn_ret' = [fn_ret EXCEPT !.w[f].pc = "extraction",
                                !.w[f].result.stage = "extraction"]
    /\ UNCHANGED <<pc, fn_arg, synth_vars>>

\* lines 47-56: the worker starts on a file
WorkerStart(f) ==
    /\ fn_ret.phase = "pool"
    /\ fn_ret.w[f].pc = "queued"
    /\ fn_ret' =
          IF fn_ret.dxf[f].run > 0
          THEN [fn_ret EXCEPT !.w[f].pc = "done",
                              !.w[f].result.skipped = TRUE,
                              !.w[f].result.success = TRUE]
          ELSE [fn_ret EXCEPT !.w[f].pc = "extraction",
                              !.w[f].result.stage = "extraction"]
    /\ UNCHANGED <<pc, fn_arg, synth_vars>>

\* lines 58-94: the extraction subprocess and the checks after it
Extract(f) ==
    /\ fn_ret.phase = "pool"
    /\ fn_ret.w[f].pc = "extraction"
    /\ \E out \in StageOutcomes :
        LET json == IF out = "ok" THEN fn_ret.run ELSE fn_ret.json[f]
            w == [fn_ret.w[f] EXCEPT !.ext = out]
        IN  fn_ret' = [fn_ret EXCEPT
                !.json[f] = json,
                !.w[f] = CASE out = "timeout" -> Raise(w, "TimeoutExpired")
                           [] out = "exit" -> Raise(w, "Extraction failed")
                           [] json = 0 -> Raise(w, "JSON not created")
                           [] OTHER -> [w EXCEPT !.pc = "conversion",
                                                 !.result.stage = "conversion"]]
    /\ UNCHANGED <<pc, fn_arg, synth_vars>>

\* lines 96-148: the conversion subprocess, the checks after it and the
\* removal of the JSON
Convert(f) ==
    /\ fn_ret.phase = "pool"
    /\ fn_ret.w[f].pc = "conversion"
    /\ \E out \in StageOutcomes :
        LET w == [fn_ret.w[f] EXCEPT !.conv = out] IN
        fn_ret' =
            CASE out = "timeout" -> [fn_ret EXCEPT !.w[f] = Raise(w, "TimeoutExpired")]
              [] out = "exit" -> [fn_ret EXCEPT !.w[f] = Raise(w, "Conversion failed")]
              [] out = "silent" -> [fn_ret EXCEPT !.w[f] = Raise(w, "DXF not created")]
              [] OTHER ->
                   [fn_ret EXCEPT
                       !.dxf[f] = [run |-> fn_ret.run, json |-> fn_ret.json[f]],
                       !.json[f] = 0,
                       !.w[f] = [w EXCEPT !.pc = "done", !.result.success = TRUE]]
    /\ UNCHANGED <<pc, fn_arg, synth_vars>>

\* mutant: a failed result ends the loop over the results
Collect_AbortOnFailure(f) ==
    /\ fn_ret.phase = "pool"
    /\ fn_ret.w[f].pc = "done"
    /\ LET result == fn_ret.w[f].result IN
       fn_ret' =
          IF result.skipped
          THEN [fn_ret EXCEPT !.w[f].pc = "collected", !.stats.skipped = @ + 1]
          ELSE IF result.success
          THEN [fn_ret EXCEPT !.w[f].pc = "collected", !.stats.successful = @ + 1]
          ELSE [fn_ret EXCEPT !.w[f].pc = "collected", !.stats.failed = @ + 1,
                              !.phase = "finished", !.returned = "False"]
    /\ UNCHANGED <<pc, fn_arg, synth_vars>>

\* mutant: if, if, else in place of if, elif, else
Collect_SkippedIsSuccessToo(f) ==
    /\ fn_ret.phase = "pool"
    /\ fn_ret.w[f].pc = "done"
    /\ LET result == fn_ret.w[f].result IN
       fn_ret' =
          IF result.success
          THEN [fn_ret EXCEPT !.w[f].pc = "collected",
                              !.stats.skipped = IF result.skipped THEN @ + 1 ELSE @,
                              !.stats.successful = @ + 1]
          ELSE [fn_ret EXCEPT !.w[f].pc = "collected", !.stats.failed = @ + 1,
                              !.errors = Append(@, [file |-> f,
                                                    stage |-> result.stage,
                                                    error |-> result.error])]
    /\ UNCHANGED <<pc, fn_arg, synth_vars>>

\* lines 321-335: the results arrive in the order the workers finish
Collect(f) ==
    /\ fn_ret.phase = "pool"
    /\ fn_ret.w[f].pc = "done"
    /\ LET result == fn_ret.w[f].result IN
       fn_ret' =
          IF result.skipped
          THEN [fn_ret EXCEPT !.w[f].pc = "collected", !.stats.skipped = @ + 1]
          ELSE IF result.success
          THEN [fn_ret EXCEPT !.w[f].pc = "collected", !.stats.successful = @ + 1]
          ELSE [fn_ret EXCEPT !.w[f].pc = "collected", !.stats.failed = @ + 1,
                              !.errors = Append(@, [file |-> f,
                                                    stage |-> result.stage,
                                                    error |-> result.error])]
    /\ UNCHANGED <<pc, fn_arg, synth_vars>>

\* lines 232-239
cleanup(b) ==
    IF ~b.keep_json THEN [b EXCEPT !.json = [f \in DOMAIN b.json |-> 0]] ELSE b

\* lines 355-362: every result has arrived
FinishRun ==
    /\ fn_ret.phase = "pool"
    /\ \A f \in SvgFiles : fn_ret.w[f].pc = "collected"
    /\ fn_ret' = [cleanup(fn_ret) EXCEPT
                     !.phase = "finished",
                     !.summary = TRUE,
                     !.returned = IF fn_ret.stats.failed = 0 THEN "True" ELSE "False"]
    /\ UNCHANGED <<pc, fn_arg, synth_vars>>

\* lines 348-350: the user interrupts the run; the pool is terminated
Interrupt ==
    /\ fn_ret.phase = "pool"
    /\ \E f \in SvgFiles : fn_ret.w[f].pc # "collected"
    /\ fn_ret' = [fn_ret EXCEPT !.phase = "finished", !.returned = "False",
                                !.interrupted = TRUE]
    /\ UNCHANGED <<pc, fn_arg, synth_vars>>

BatchNext ==
    \/ StartRun
    \/ \E f \in SvgFiles : WorkerStart(f)
    \/ \E f \in SvgFiles : Extract(f)
    \/ \E f \in SvgFiles : Convert(f)
    \/ \E f \in SvgFiles : Collect(f)
    \/ FinishRun
    \/ Interrupt

SpecBatch == BatchInit /\ [][BatchNext]_vars

(* flip_y, flip_y_list *)

FlipHeights == {None, R(0), R(1), R(10), R(Pow2(MantBits))}
FlipPoints == {<<R(1), y>> : y \in {R(0), <<1, 2>>, R(1), R(3), R(-2)}} \cup {Pt(0, 3)}
FlipLists == SeqsUpTo({Pt(0, 0), Pt(1, 3), <<R(2), <<1, 2>>>>}, MaxListLen)

FlipInit ==
    /\ pc = "call"
    /\ fn_arg \in [fn : {"flip_y"}, point : FlipPoints, points : {<<>>},
                   height : FlipHeights]
             \cup [fn : {"flip_y_list"}, point : {None}, points : FlipLists,
                   height : FlipHeights]
    /\ fn_ret = None
    /\ Idle

CallFlip ==
    /\ pc = "call" /\ fn_arg.fn = "flip_y"
    /\ fn_ret' = flip_y(fn_arg.point, fn_arg.height)
    /\ pc' = "flipped"
    /\ UNCHANGED <<fn_arg, synth_vars>>

\* flip_y applied to the result of flip_y
CallFlipBack ==
    /\ pc = "flipped"
    /\ fn_ret' = flip_y(fn_ret, fn_arg.height)
    /\ pc' = "flipped_back"
    /\ UNCHANGED <<fn_arg, synth_vars>>

CallFlipList ==
    /\ pc = "call" /\ fn_arg.fn = "flip_y_list"
    /\ fn_ret' = flip_y_list(fn_arg.points, fn_arg.height)
    /\ pc' = "listed"
    /\ UNCHANGED <<fn_arg, synth_vars>>

FlipNext == CallFlip \/ CallFlipBack \/ CallFlipList

SpecFlip == FlipInit /\ [][FlipNext]_vars

(* get_svg_height *)

HeightChars == {"1", "2", ".", "e", "x"}
HeightStrings == (SeqsUpTo(HeightChars, MaxStrLen) \ {<<>>}) \cup {NotSpecified}
ViewBoxStrings ==
    { NotSpecified,
      <<"0", " ", "0", " ", "5", " ", "8">>,
      <<"0", " ", "0", " ", "5">>,
      <<"0", " ", "0", " ", "5", " ", "x">> }

HeightInit ==
    /\ pc = "call"
    /\ fn_arg \in [height : HeightStrings, viewBox : ViewBoxStrings]
    /\ fn_ret = None
    /\ Idle

CallHeight ==
    /\ pc = "call"
    /\ fn_ret' = get_svg_height(fn_arg)
    /\ pc' = "returned"
    /\ UNCHANGED <<fn_arg, synth_vars>>

HeightNext == CallHeight

SpecHeight == HeightInit /\ [][HeightNext]_vars

(* approximate_cubic_bezier, approximate_quadratic_bezier *)

BezierPoints == {<<R(a), R(b)>> : a \in {0, MaxCoord}, b \in (-1)..MaxCoord}

BezierInit ==
    /\ pc = "call"
    /\ fn_arg \in [fn : {"cubic"}, p : [1..4 -> BezierPoints]]
             \cup [fn : {"quadratic"}, p : [1..3 -> BezierPoints]]
    /\ fn_ret = None
    /\ Idle

CallCubic ==
    /\ pc = "call" /\ fn_arg.fn = "cubic"
    /\ fn_ret' = approximate_cubic_bezier(fn_arg.p[1], fn_arg.p[2], fn_arg.p[3],
                                          fn_arg.p[4], CubicNumPoints)
    /\ pc' = "sampled"
    /\ UNCHANGED <<fn_arg, synth_vars>>

CallQuadratic ==
    /\ pc = "call" /\ fn_arg.fn = "quadratic"
    /\ fn_ret' = approximate_quadratic_bezier(fn_arg.p[1], fn_arg.p[2], fn_arg.p[3],
                                              QuadNumPoints)
    /\ pc' = "sampled"
    /\ UNCHANGED <<fn_arg, synth_vars>>

BezierNext == CallCubic \/ CallQuadratic

SpecBezier == BezierInit /\ [][BezierNext]_vars


-----------------------------------------------------------------------------
(* Vocabulary of the properties *)

\* the point the drawing must hold for the source point p: p flipped once
FlipOnce(p) ==
    IF svg_height = None THEN p ELSE <<p[1], FSub(svg_height, p[2])>>

FlipOnceAll(ps) == [i \in 1..Len(ps) |-> FlipOnce(ps[i])]

\* the last step read a segment with the given operation
After(op) ==
    /\ prev.step = "segment"
    /\ Last(CurPath).operation = op

SegRead == Last(CurPath)

\* what the last step added to the modelspace
EmittedOne == Len(msp) = prev.n + 1
EmittedNone == Len(msp) = prev.n

\* the entities that the walk of path k added, in order
RECURSIVE OfPath(_, _)
OfPath(k, i) ==
    IF i > Len(msp) THEN <<>>
    ELSE (IF origin[i].path = k THEN <<msp[i]>> ELSE <<>>) \o OfPath(k, i + 1)

Polyline(points, closed) ==
    [kind |-> "LWPOLYLINE", layer |-> PathLayer, points |-> points, closed |-> closed]

-----------------------------------------------------------------------------
(* C1: a Close segment processed while the accumulator holds at least 2   *)
(* points emits exactly one polyline, closed, whose vertices are the       *)
(* accumulated points in order, each flipped once, and empties the         *)
(* accumulator; the path M(0,0) L(10,0) L(10,10) Z with height 20 yields   *)
(* exactly one polyline, closed, with vertices (0,20), (10,20), (10,10).   *)

Scenario1 ==
    << MoveSeg(Pt(0, 0)), LineSeg(Pt(0, 0), Pt(10, 0)),
       LineSeg(Pt(10, 0), Pt(10, 10)), CloseSeg(Pt(10, 10), Pt(0, 0)) >>

C1_CloseStep ==
    (After("z") /\ Len(prev.acc) >= 2) =>
        /\ EmittedOne
        /\ Last(msp) = Polyline(FlipOnceAll(prev.acc), TRUE)
        /\ polyline_points = <<>>

C1_Scenario ==
    (pc \in {"segments", "paths"} /\ doc.paths # <<>> /\ CurPath = Scenario1
        /\ svg_height = R(20)) =>
        OfPath(path_idx, 1) = << Polyline(<<Pt(0, 20), Pt(10, 20), Pt(10, 10)>>, TRUE) >>

C1_CloseFlushesClosed == C1_CloseStep /\ C1_Scenario

C1_Witness ==
    /\ pc = "paths" /\ doc.paths # <<>> /\ CurPath = Scenario1
    /\ svg_height = R(20)
    /\ Len(msp) = 1 /\ msp[1].closed /\ polyline_points = <<>>

-----------------------------------------------------------------------------
(* C2: after any Move segment the accumulator is exactly the one point     *)
(* the Move ends at, whatever it held before; if it held at least 2 points *)
(* they were emitted as one open polyline first.                           *)

C2_MoveRestartsAccumulator ==
    After("m") =>
        /\ polyline_points = <<SegRead.data.end>>
        /\ Len(prev.acc) >= 2 =>
              /\ EmittedOne
              /\ Last(msp) = Polyline(FlipOnceAll(prev.acc), FALSE)

-----------------------------------------------------------------------------
(* C3: a Line segment emits no entity; an empty accumulator becomes        *)
(* [start, end] of the segment, otherwise the end point is appended and    *)
(* the earlier vertices stay.                                              *)

C3_LineAccumulates ==
    After("l") =>
        /\ EmittedNone
        /\ polyline_points =
              IF prev.acc = <<>>
              THEN <<SegRead.data.start, SegRead.data.end>>
              ELSE Append(prev.acc, SegRead.data.end)

C3_Witness ==
    /\ pc = "segments"
    /\ CurPath = <<LineSeg(Pt(0, 0), Pt(10, 0)), LineSeg(Pt(10, 0), Pt(10, 10))>>
    /\ polyline_points = <<Pt(0, 0), Pt(10, 0), Pt(10, 10)>>
    /\ msp = <<>>

-----------------------------------------------------------------------------
(* C4: at the end of a path an accumulator of at least 2 points is emitted *)
(* as one open polyline, the accumulator is empty when the next path       *)
(* starts, and no polyline emitted from the accumulator holds points of    *)
(* two different paths.                                                    *)

C4_EndStep ==
    (prev.step = "end" /\ Len(prev.acc) >= 2) =>
        /\ EmittedOne
        /\ Last(msp) = Polyline(FlipOnceAll(prev.acc), FALSE)

C4_StartStep == prev.step = "start" => polyline_points = <<>>

C4_OnePath ==
    \A i \in 1..Len(msp) :
        origin[i].from = "acc" =>
            \A j \in 1..Len(origin[i].pt_paths) : origin[i].pt_paths[j] = origin[i].path

C4_PolylinesStayInOnePath == C4_EndStep /\ C4_StartStep /\ C4_OnePath

C4_Witness ==
    /\ pc = "paths"
    /\ \E i, j \in 1..Len(msp) :
          /\ origin[i].from = "acc" /\ origin[i].path = 1 /\ ~msp[i].closed
          /\ origin[j].from = "acc" /\ origin[j].path = 2 /\ ~msp[j].closed

-----------------------------------------------------------------------------
(* C5: a CubicBezier, QuadraticBezier or Arc segment leaves the            *)
(* accumulator unchanged and emits exactly one entity: a spline of degree  *)
(* 3 with 21 points, an open polyline of 16 points, an open polyline of    *)
(* the 2 points start and end.                                             *)

C5_CurvesAreStandalone ==
    /\ After("c") =>
          /\ polyline_points = prev.acc /\ EmittedOne
          /\ Last(msp).kind = "SPLINE" /\ Last(msp).degree = 3
          /\ Len(Last(msp).points) = 21
    /\ After("q") =>
          /\ polyline_points = prev.acc /\ EmittedOne
          /\ Last(msp).kind = "LWPOLYLINE" /\ ~Last(msp).closed
          /\ Len(Last(msp).points) = 16
    /\ After("a") =>
          /\ polyline_points = prev.acc /\ EmittedOne
          /\ Last(msp) = Polyline(<<FlipOnce(SegRead.data.start),
                                    FlipOnce(SegRead.data.end)>>, FALSE)

C5_Witness ==
    /\ pc = "segments" /\ Len(CurPath) = 4
    /\ CurPath[1].operation = "m" /\ CurPath[2].operation = "c"
    /\ CurPath[3].operation = "q" /\ CurPath[4].operation = "a"
    /\ Len(msp) = 3 /\ polyline_points = <<CurPath[1].data.end>>

-----------------------------------------------------------------------------
(* C6: with the canvas height resolved, every coordinate of every emitted  *)
(* entity is its source point flipped exactly once, (x, H - y); a sample   *)
(* of a curve segment is a sample of the once-flipped control points.  The *)
(* cubic (0,0) (0,10) (10,10) (10,0) with height 10 yields a spline of 21  *)
(* points from (0,10) to (10,10).  msp only grows by Append, so the        *)
(* entities the last step added, checked in every state, are all of them.  *)

Flipped(p) == <<p[1], FSub(svg_height, p[2])>>
Unflipped(p) == p

\* the coordinates entity i must have when F is the map applied once to its
\* source points: the control points of a curve segment, the vertices,
\* end points or centre of anything else
Expected(i, F(_)) ==
    LET o == origin[i]
        All(ps) == [k \in 1..Len(ps) |-> F(ps[k])]
    IN
    CASE o.from = "acc" -> All(o.src)
      [] o.from = "cubic" ->
            approximate_cubic_bezier(F(o.seg.data.start), F(o.seg.data.control1),
                                     F(o.seg.data.control2), F(o.seg.data.end), 20)
      [] o.from = "quad" ->
            approximate_quadratic_bezier(F(o.seg.data.start), F(o.seg.data.control),
                                         F(o.seg.data.end), 15)
      [] o.from = "arc" -> All(<<o.seg.data.start, o.seg.data.end>>)
      [] o.from = "lines" -> All(<<o.line.start, o.line.end>>)
      [] o.from = "curves" -> All(<<o.curve.data.center>>)
      [] o.from = "shape" ->
            CASE o.shape.type = "line" -> All(<<o.shape.start, o.shape.end>>)
              [] o.shape.type = "rectangle" -> All(o.shape.corners)
              [] o.shape.type \in {"circle", "ellipse"} -> All(<<o.shape.center>>)
              [] o.shape.type \in {"polyline", "polygon"} -> All(o.shape.points)

\* the coordinates of entity i
Coordinates(i) ==
    IF msp[i].kind \in {"CIRCLE", "ELLIPSE"} THEN <<msp[i].center>> ELSE msp[i].points

Scenario3 == CubicSeg(Pt(0, 0), Pt(0, 10), Pt(10, 10), Pt(10, 0))

C6_EveryPointFlippedOnce ==
    svg_height # None =>
      /\ Len(origin) = Len(msp)
      /\ \A i \in (prev.n + 1)..Len(msp) :
            /\ Coordinates(i) = Expected(i, Flipped)
            /\ (origin[i].from = "cubic" /\ origin[i].seg = Scenario3
                  /\ svg_height = R(10)) =>
                  /\ msp[i].kind = "SPLINE"
                  /\ Len(msp[i].points) = 21
                  /\ msp[i].points[1] = Pt(0, 10)
                  /\ msp[i].points[21] = Pt(10, 10)

C6_Witness ==
    /\ pc = "done" /\ svg_height = R(10)
    /\ \E i \in 1..Len(msp) : origin[i].from = "cubic" /\ origin[i].seg = Scenario3
    /\ \E i \in 1..Len(msp) : msp[i].kind = "CIRCLE" /\ origin[i].from = "curves"

-----------------------------------------------------------------------------
(* C9: with neither a height attribute nor a viewBox, synthesis does not   *)
(* fail: a warning is raised, the transform is the identity and every      *)
(* entity is emitted with its source coordinates.                          *)

-----------------------------------------------------------------------------
(* C7: flip_y(point, H) is (x, H - y) when H is known and the point itself *)
(* when H is None; flip_y_list applies flip_y to every point, keeping      *)
(* length and order; flip_y is an involution.                              *)

RAbs(q) == <<Abs(q[1]), q[2]>>

RECURSIVE OddPart(_)
OddPart(n) == IF n % 2 = 0 THEN OddPart(n \div 2) ELSE n

\* q is a float: an integer below 2^MantBits times a power of two
Representable(q) ==
    q[1] = 0 \/ (OddPart(q[2]) = 1 /\ OddPart(Abs(q[1])) < Pow2(MantBits))

\* r is the float result of an operation whose exact result is q
FloatOf(r, q) ==
    /\ Representable(r)
    /\ Representable(q) => r = q
    /\ RLeq(RMul(RAbs(RSub(r, q)), R(Pow2(MantBits))), RAbs(q))

C7_FlipReturns ==
    pc = "flipped" =>
        IF fn_arg.height = None THEN fn_ret = fn_arg.point
        ELSE /\ fn_ret[1] = fn_arg.point[1]
             /\ FloatOf(fn_ret[2], RSub(fn_arg.height, fn_arg.point[2]))

C7_ListMaps ==
    pc = "listed" =>
        /\ Len(fn_ret) = Len(fn_arg.points)
        /\ \A i \in 1..Len(fn_ret) : fn_ret[i] = flip_y(fn_arg.points[i], fn_arg.height)

\* the difference H - y is a float, so that the subtraction does not round
C7_ExactFlip ==
    fn_arg.height = None \/ Representable(RSub(fn_arg.height, fn_arg.point[2]))

\* C7 as stated: the involution holds for all points and all heights
C7_FlipIsInvolution ==
    /\ C7_FlipReturns
    /\ C7_ListMaps
    /\ pc = "flipped_back" => fn_ret = fn_arg.point

\* C7 amended: the involution holds where H - y is computed without rounding
C7_FlipIsInvolutionWhereExact ==
    /\ C7_FlipReturns
    /\ C7_ListMaps
    /\ (pc = "flipped_back" /\ C7_ExactFlip) => fn_ret = fn_arg.point

C7_Witness ==
    /\ pc = "flipped_back"
    /\ fn_arg.height = R(10) /\ fn_arg.point = <<R(1), <<1, 2>>>>
    /\ fn_ret = fn_arg.point

-----------------------------------------------------------------------------
(* C8: get_svg_height returns the number the height attribute states, with *)
(* a unit suffix stripped; without a height attribute, the fourth          *)
(* component of a four-component viewBox; otherwise it is unresolved.      *)

IsUnit(s) == \A i \in 1..Len(s) : ~isdigit(s[i]) /\ s[i] \notin {".", "-", "+"}

\* the lengths of the prefixes of s that are a number followed by a unit
NumberPrefixes(s) ==
    {k \in 1..Len(s) : /\ float(SubSeq(s, 1, k)) # ValueError
                       /\ IsUnit(SubSeq(s, k + 1, Len(s)))}

\* the number a length attribute denotes: its longest numeric prefix
Denotes(s) ==
    IF NumberPrefixes(s) = {} THEN ValueError
    ELSE float(SubSeq(s, 1, CHOOSE k \in NumberPrefixes(s) :
                                \A j \in NumberPrefixes(s) : j <= k))

C8_HeightResolution ==
    pc = "returned" =>
        LET parts == split(fn_arg.viewBox) IN
        IF fn_arg.height # NotSpecified
        THEN Denotes(fn_arg.height) # ValueError => fn_ret = Denotes(fn_arg.height)
        ELSE IF /\ fn_arg.viewBox # NotSpecified
                /\ Len(parts) = 4
                /\ float(parts[4]) # ValueError
             THEN fn_ret = float(parts[4])
             ELSE fn_ret = None

-----------------------------------------------------------------------------
(* C10: approximate_cubic_bezier returns 21 points, the k-th the Bernstein *)
(* polynomial of the control points at t = (k-1)/20, from P0 to P3;        *)
(* approximate_quadratic_bezier returns 16 points at t = (k-1)/15, from P0 *)
(* to P2.                                                                  *)

RECURSIVE IPow(_, _)
IPow(b, e) == IF e = 0 THEN 1 ELSE b * IPow(b, e - 1)

RECURSIVE Binomial(_, _)
Binomial(n, j) ==
    IF j = 0 \/ j = n THEN 1 ELSE Binomial(n - 1, j - 1) + Binomial(n - 1, j)

\* sum over j of C(n,j) (N-i)^(n-j) i^j a[j+1], for j from 0 to m
RECURSIVE BernsteinSum(_, _, _, _)
BernsteinSum(a, i, N, m) ==
    LET n == Len(a) - 1
        term == RMul(R(Binomial(n, m) * IPow(N - i, n - m) * IPow(i, m)), a[m + 1])
    IN  IF m = 0 THEN term ELSE RAdd(BernsteinSum(a, i, N, m - 1), term)

\* the Bernstein polynomial with coefficients a at t = i/N
Bernstein(a, i, N) == RDiv(BernsteinSum(a, i, N, Len(a) - 1), R(IPow(N, Len(a) - 1)))

C10_Samples(N) ==
    LET xs == [j \in DOMAIN fn_arg.p |-> fn_arg.p[j][1]]
        ys == [j \in DOMAIN fn_arg.p |-> fn_arg.p[j][2]]
    IN  /\ Len(fn_ret) = N + 1
        /\ fn_ret[1] = fn_arg.p[1]
        /\ fn_ret[N + 1] = fn_arg.p[Len(fn_arg.p)]
        /\ \A k \in 1..(N + 1) :
              fn_ret[k] = <<Bernstein(xs, k - 1, N), Bernstein(ys, k - 1, N)>>

C10_BezierSamples ==
    pc = "sampled" =>
        /\ Len(fn_ret) = (IF fn_arg.fn = "cubic" THEN 21 ELSE 16)
        /\ C10_Samples(IF fn_arg.fn = "cubic" THEN 20 ELSE 15)

C10_Witness ==
    /\ pc = "sampled" /\ fn_arg.fn = "cubic"
    /\ fn_arg.p = <<Pt(0, 0), Pt(0, 1), Pt(1, 1), Pt(1, 0)>>
    /\ fn_ret[11] = <<<<1, 2>>, <<3, 4>>>>

-----------------------------------------------------------------------------
(* C11: a circle shape with radius > 0 is emitted as one circle with       *)
(* center (cx, H - cy) and the same radius; center (5,5), radius 3 and     *)
(* height 20 give center (5,15), radius 3.  A circle with radius <= 0      *)
(* emits nothing and the walk goes on.                                     *)

\* the last step read a shape of the given type
AfterShape(type) ==
    pc = "shapes" /\ prev.step = "shape" /\ Last(doc.shapes).type = type

C11_CircleShape ==
    AfterShape("circle") =>
        LET s == Last(doc.shapes) IN
        IF RLt(R(0), s.radius)
        THEN /\ EmittedOne
             /\ Last(msp).kind = "CIRCLE"
             /\ Last(msp).center = FlipOnce(s.center)
             /\ Last(msp).radius = s.radius
             /\ (s = CircleShape(Pt(5, 5), R(3)) /\ svg_height = R(20)) =>
                    Last(msp).center = Pt(5, 15) /\ Last(msp).radius = R(3)
        ELSE EmittedNone

C11_Witness ==
    /\ pc = "done" /\ svg_height = R(20)
    /\ doc.shapes = <<CircleShape(Pt(5, 5), R(-1)), CircleShape(Pt(5, 5), R(3))>>
    /\ Len(msp) = 2 /\ msp[1].center = Pt(5, 15)

-----------------------------------------------------------------------------
(* C12: an ellipse with rx > 0 and ry > 0 is emitted as one ellipse whose  *)
(* major axis is (rx, 0) when rx >= ry and (0, ry) otherwise, with ratio   *)
(* min(rx,ry)/max(rx,ry), which lies in (0,1]; an ellipse with rx <= 0 or  *)
(* ry <= 0 emits nothing and the walk goes on.                             *)

RMin(a, b) == IF RLeq(a, b) THEN a ELSE b
RMax(a, b) == IF RLeq(a, b) THEN b ELSE a

C12_EllipseShape ==
    AfterShape("ellipse") =>
        LET s == Last(doc.shapes)
            rx == s.radius_x
            ry == s.radius_y
        IN
        IF RLt(R(0), rx) /\ RLt(R(0), ry)
        THEN /\ EmittedOne
             /\ Last(msp).kind = "ELLIPSE"
             /\ Last(msp).major_axis = (IF RLeq(ry, rx) THEN <<rx, R(0)>> ELSE <<R(0), ry>>)
             /\ Last(msp).ratio = RDiv(RMin(rx, ry), RMax(rx, ry))
             /\ RLt(R(0), Last(msp).ratio) /\ RLeq(Last(msp).ratio, R(1))
        ELSE EmittedNone

C12_Witness ==
    /\ pc = "shapes"
    /\ doc.shapes = <<EllipseShape(Pt(5, 5), R(0), R(2)), EllipseShape(Pt(5, 5), R(2), R(3))>>
    /\ Len(msp) = 1 /\ msp[1].major_axis = <<R(0), R(3)>> /\ msp[1].ratio = <<2, 3>>

-----------------------------------------------------------------------------
(* C13: for a rectangle {x,y,w,h} with w,h > 0 extraction derives the      *)
(* corners (x,y), (x+w,y), (x+w,y+h), (x,y+h) and synthesis emits one      *)
(* closed polyline with exactly these four vertices, flipped: a simple     *)
(* axis-aligned rectangle of area w*h.                                     *)

\* twice the signed area of the polygon with vertices v (shoelace formula)
RECURSIVE Shoelace(_, _)
Shoelace(v, i) ==
    IF i > Len(v) THEN R(0)
    ELSE LET a == v[i]
             b == v[(i % Len(v)) + 1]
         IN  RAdd(RSub(RMul(a[1], b[2]), RMul(b[1], a[2])), Shoelace(v, i + 1))

Area(v) == RDiv(RAbs(Shoelace(v, 1)), R(2))

\* the four vertices run along X, along Y, back along X and back along Y
AxisAlignedRectangle(v) ==
    /\ Len(v) = 4
    /\ v[1][2] = v[2][2] /\ v[2][1] = v[3][1]
    /\ v[3][2] = v[4][2] /\ v[4][1] = v[1][1]
    /\ v[1][1] # v[2][1] /\ v[2][2] # v[3][2]

-----------------------------------------------------------------------------
(* C14: categorize_vectors turns a rectangle into exactly 4 lines, corner  *)
(* i to corner (i+1) mod 4; an open polyline of N points into the N-1      *)
(* lines between consecutive points; a closed polygon of N >= 3 points     *)
(* into N lines, the N-1 consecutive ones and one from the last point to   *)
(* the first; a closed polygon of fewer than 3 points gets no closing      *)
(* line.                                                                    *)

\* the number of segments of the given operations in the paths
RECURSIVE CountOps(_, _)
CountOps(paths, ops) ==
    IF paths = <<>> THEN 0
    ELSE Cardinality({i \in 1..Len(paths[1]) : paths[1][i].operation \in ops})
         + CountOps(Tail(paths), ops)

\* the vertices of a shape that has edges
Vertices(shape) == IF shape.type = "rectangle" THEN shape.corners ELSE shape.points

\* the number of lines a shape must yield
EdgeCount(shape) ==
    LET n == Len(Vertices(shape)) IN
    CASE shape.type = "line" -> 1
      [] shape.type = "rectangle" -> 4
      [] shape.type = "polygon" /\ n >= 3 -> n
      [] shape.type \in {"polygon", "polyline"} -> IF n = 0 THEN 0 ELSE n - 1
      [] OTHER -> 0

\* the number of lines that precede those of shape k in the output
RECURSIVE LinesBefore(_, _, _)
LinesBefore(paths, shapes, k) ==
    IF k = 1 THEN CountOps(paths, {"l"})
    ELSE LinesBefore(paths, shapes, k - 1) + EdgeCount(shapes[k - 1])

C14_ShapeEdges ==
    pc = "categorized" =>
        LET shapes == fn_arg.shapes
            lines == fn_ret.lines
        IN  /\ Len(lines) = LinesBefore(fn_arg.paths, shapes, Len(shapes) + 1)
            /\ \A k \in 1..Len(shapes) :
                 shapes[k].type \in {"rectangle", "polyline", "polygon"} =>
                   LET v == Vertices(shapes[k])
                       base == LinesBefore(fn_arg.paths, shapes, k)
                   IN  \A i \in 1..EdgeCount(shapes[k]) :
                         /\ lines[base + i].start = v[i]
                         /\ lines[base + i].end = v[(i % Len(v)) + 1]
                         /\ lines[base + i].source = shapes[k].type

C14_Witness ==
    /\ pc = "categorized"
    /\ fn_arg.paths = <<>>
    /\ fn_arg.shapes = << PolyShape("polygon", SubSeq(AnyPoints, 1, 2)),
                          PolyShape("polygon", SubSeq(AnyPoints, 1, 3)) >>
    /\ Len(fn_ret.lines) = 4
    /\ fn_ret.lines[4].start = Pt(10, 10) /\ fn_ret.lines[4].end = Pt(0, 0)

-----------------------------------------------------------------------------
(* C15: categorize_vectors yields exactly one line per Line segment and    *)
(* per line shape, exactly one curve per cubic, quadratic or arc segment   *)
(* and per circle or ellipse shape, and nothing for Move and Close; in     *)
(* both lists the entries from paths come before the entries from shapes,  *)
(* and within each group they follow the order of the input.               *)

\* the segments of all paths, in the order they are met
RECURSIVE Flatten(_)
Flatten(paths) == IF paths = <<>> THEN <<>> ELSE paths[1] \o Flatten(Tail(paths))

\* the first n entries of q, and no other, are from paths
PathsFirst(q, n) == \A i \in 1..Len(q) : (q[i].source = "path") <=> (i <= n)

C15_OnePerSourceInOrder ==
    pc = "categorized" =>
        LET segs == Flatten(fn_arg.paths)
            lineSegs == SelectSeq(segs, LAMBDA g : g.operation = "l")
            curveSegs == SelectSeq(segs, LAMBDA g : g.operation \in {"c", "q", "a"})
            lineShapes == SelectSeq(fn_arg.shapes, LAMBDA h : h.type = "line")
            curveShapes == SelectSeq(fn_arg.shapes,
                                     LAMBDA h : h.type \in {"circle", "ellipse"})
            shapeLines == SelectSeq(fn_ret.lines, LAMBDA l : l.source = "shape")
            lines == fn_ret.lines
            curves == fn_ret.curves
            nl == Len(lineSegs)
            nc == Len(curveSegs)
        IN  /\ PathsFirst(lines, nl)
            /\ \A i \in 1..nl : /\ lines[i].start = lineSegs[i].data.start
                                /\ lines[i].end = lineSegs[i].data.end
            /\ Len(shapeLines) = Len(lineShapes)
            /\ \A i \in 1..Len(shapeLines) : /\ shapeLines[i].start = lineShapes[i].start
                                             /\ shapeLines[i].end = lineShapes[i].end
            /\ PathsFirst(curves, nc)
            /\ \A i \in 1..nc : /\ curves[i].type = curveSegs[i].type
                                /\ curves[i].operation = curveSegs[i].operation
                                /\ curves[i].data = curveSegs[i].data
            /\ Len(curves) = nc + Len(curveShapes)
            /\ \A i \in 1..Len(curveShapes) : /\ curves[nc + i].type = curveShapes[i].type
                                              /\ curves[nc + i].data = curveShapes[i]
                                              /\ curves[nc + i].source = "shape"

C15_Witness ==
    /\ pc = "categorized"
    /\ Len(fn_arg.paths) = 2 /\ Len(fn_arg.shapes) = 2
    /\ Len(fn_ret.lines) = 4 /\ Len(fn_ret.curves) = 2
    /\ fn_ret.lines[3].source = "path" /\ fn_ret.lines[4].source = "shape"
    /\ fn_ret.curves[1].source = "path" /\ fn_ret.curves[2].type = "circle"

-----------------------------------------------------------------------------
(* C16: every line categorize_vectors yields has a length equal to the     *)
(* Euclidean distance between its own start and end, recomputed by the     *)
(* categorizer for every provenance, also for inputs whose stored length   *)
(* disagrees with their end points.                                        *)

LengthIsDistance(l) == l.length = Dist(l.start, l.end)

\* C16 as stated: for any input
C16_LengthIsRecomputed ==
    pc = "categorized" =>
        \A i \in 1..Len(fn_ret.lines) : LengthIsDistance(fn_ret.lines[i])

\* every Line segment and every line shape of the input stores the distance
\* of its end points, as the extractor writes it
StoredLengthsAgree ==
    /\ \A i \in 1..Len(Flatten(fn_arg.paths)) :
          LET g == Flatten(fn_arg.paths)[i] IN
          g.operation = "l" => g.data.length = Dist(g.data.start, g.data.end)
    /\ \A k \in 1..Len(fn_arg.shapes) :
          LET h == fn_arg.shapes[k] IN
          h.type = "line" => h.length = Dist(h.start, h.end)

\* C16 amended: the edges of rectangles, polylines and polygons carry the
\* recomputed distance; the lines of Line segments and line shapes carry the
\* stored length, which is the distance when the input stores it so
C16_LengthIsDistanceWhereStoredSo ==
    pc = "categorized" =>
        LET lines == fn_ret.lines
            lineSegs == SelectSeq(Flatten(fn_arg.paths), LAMBDA g : g.operation = "l")
            lineShapes == SelectSeq(fn_arg.shapes, LAMBDA h : h.type = "line")
            shapeLines == SelectSeq(lines, LAMBDA l : l.source = "shape")
        IN  /\ \A i \in 1..Len(lines) :
                 lines[i].source \in {"rectangle", "polyline", "polygon"} =>
                     LengthIsDistance(lines[i])
            /\ \A i \in 1..Len(lineSegs) : lines[i].length = lineSegs[i].data.length
            /\ \A i \in 1..Len(lineShapes) : shapeLines[i].length = lineShapes[i].length
            /\ StoredLengthsAgree => \A i \in 1..Len(lines) : LengthIsDistance(lines[i])

C16_Witness ==
    /\ pc = "categorized" /\ StoredLengthsAgree
    /\ Len(fn_arg.paths) = 1
    /\ fn_arg.shapes = << LineShape(Pt(0, 0), Pt(10, 10)), RectShape(R(2), R(1), R(3), R(5)) >>
    /\ Len(fn_ret.lines) = 7
    /\ fn_ret.lines[1].source = "path"
    /\ fn_ret.lines[7].length = Sqrt(R(25))

-----------------------------------------------------------------------------
(* C17: with layer organization enabled every emitted entity is on the     *)
(* layer of the collection it was emitted from: path walk PATHS, shapes    *)
(* SHAPES, categorized lines LINES, categorized curves CURVES; with layer  *)
(* organization disabled every entity is on the default layer "0".         *)

LayerOf(from) ==
    CASE from \in {"acc", "cubic", "quad", "arc"} -> "PATHS"
      [] from = "shape" -> "SHAPES"
      [] from = "lines" -> "LINES"
      [] from = "curves" -> "CURVES"

C17_LayerByCollection ==
    \A i \in (prev.n + 1)..Len(msp) :
        msp[i].layer = (IF layer_by_type THEN LayerOf(origin[i].from) ELSE "0")

C17_Witness ==
    /\ pc = "done" /\ layer_by_type
    /\ {msp[i].layer : i \in 1..Len(msp)} = {"PATHS", "SHAPES", "LINES", "CURVES"}

-----------------------------------------------------------------------------
(* C18: at the end of the walk of an extracted document every circle or    *)
(* ellipse shape with positive radii has yielded exactly two entities of   *)
(* identical geometry, one from the shapes walk on SHAPES and one from the *)
(* curves walk on CURVES; the cubic, quadratic and arc curves yield        *)
(* nothing in the curves walk.                                             *)

\* the entities of the given origin that are circles or ellipses, in order
RoundEntities(from) ==
    LET idx == SelectSeq([i \in 1..Len(msp) |-> i],
                         LAMBDA i : /\ origin[i].from = from
                                    /\ msp[i].kind \in {"CIRCLE", "ELLIPSE"})
    IN  [k \in 1..Len(idx) |-> msp[idx[k]]]

Geometry(e) == [e EXCEPT !.layer = "any"]

PositiveRadii(h) ==
    \/ h.type = "circle" /\ RLt(R(0), h.radius)
    \/ h.type = "ellipse" /\ RLt(R(0), h.radius_x) /\ RLt(R(0), h.radius_y)

C18_RoundShapesEmittedTwice ==
    pc = "done" =>
        LET round == SelectSeq(doc.shapes, PositiveRadii)
            fromShapes == RoundEntities("shape")
            fromCurves == RoundEntities("curves")
        IN  /\ Len(fromShapes) = Len(round)
            /\ Len(fromCurves) = Len(round)
            /\ \A k \in 1..Len(round) :
                 /\ Geometry(fromShapes[k]) = Geometry(fromCurves[k])
                 /\ fromShapes[k].center = FlipOnce(round[k].center)
                 /\ fromShapes[k].kind = (IF round[k].type = "circle"
                                          THEN "CIRCLE" ELSE "ELLIPSE")
                 /\ fromShapes[k].layer = ShapeLayer
                 /\ fromCurves[k].layer = CurvesLayer
                 /\ layer_by_type => /\ fromShapes[k].layer = "SHAPES"
                                     /\ fromCurves[k].layer = "CURVES"
            /\ \A i \in 1..Len(msp) :
                 origin[i].from = "curves" =>
                     /\ msp[i].kind \in {"CIRCLE", "ELLIPSE"}
                     /\ origin[i].curve.source = "shape"

C18_Witness ==
    /\ pc = "done" /\ layer_by_type
    /\ \E i \in 1..Len(doc.paths) : \E j \in 1..Len(doc.paths[i]) :
          doc.paths[i][j].operation = "c"
    /\ doc.shapes = <<EllipseShape(Pt(5, 5), R(2), R(3)), CircleShape(Pt(5, 5), R(3))>>
    /\ Len(RoundEntities("curves")) = 2

-----------------------------------------------------------------------------
(* C19: create_dxf_from_vectors run twice on the same document with the    *)
(* same layer option yields two entity lists identical in order, kind,     *)
(* layer and coordinates; the first run leaves nothing behind that changes *)
(* the second.                                                             *)

C19_SecondRunIsIdentical ==
    (pc = "done" /\ fn_arg # None) =>
        /\ doc = fn_arg.vector_data
        /\ msp = fn_ret.msp
        /\ stats = fn_ret.stats

\* both calls are over, and the first left an accumulator of two points
C19_Witness ==
    /\ pc = "done" /\ fn_arg # None
    /\ Len(doc.paths) = 1 /\ Len(doc.paths[1]) = 2
    /\ Len(polyline_points) = 2
    /\ Len(msp) >= 1 /\ msp = fn_ret.msp

-----------------------------------------------------------------------------
(* C20: the document round-trips through its serialized form: for every    *)
(* document the extractor can produce, load_vector_data(export_to_json(doc)) *)
(* equals doc field for field.                                             *)

RECURSIVE ReadBack(_, _)
ReadBack(a, b) ==
    IF b.t \in {"list", "tuple"}
    THEN /\ a.t = "list"
         /\ Len(a.v) = Len(b.v)
         /\ \A i \in 1..Len(b.v) : ReadBack(a.v[i], b.v[i])
    ELSE IF a.t # b.t THEN FALSE
    ELSE IF a.t = "dict"
    THEN /\ DOMAIN a.v = DOMAIN b.v
         /\ \A key \in DOMAIN b.v : ReadBack(a.v[key], b.v[key])
    ELSE IF a.t = "float"
    THEN IsNaN(a.v) = IsNaN(b.v) /\ (~IsNaN(b.v) => a.v = b.v)
    ELSE a.v = b.v

\* o has a tuple or a NaN somewhere
RECURSIVE HasTupleOrNaN(_)
HasTupleOrNaN(o) ==
    CASE o.t = "tuple" -> TRUE
      [] o.t = "list" -> \E i \in 1..Len(o.v) : HasTupleOrNaN(o.v[i])
      [] o.t = "dict" -> \E key \in DOMAIN o.v : HasTupleOrNaN(o.v[key])
      [] o.t = "float" -> IsNaN(o.v)
      [] OTHER -> FALSE

-----------------------------------------------------------------------------
(* C21: a path element whose d fails to parse, in parse_path or while a    *)
(* segment is converted, contributes no entry to the paths list, never a   *)
(* partial one; every other path element is extracted, in document order.  *)

Parses(d) == \A i \in 1..Len(d) : d[i].cls \notin {"Unparseable", "Unconvertible"}

\* the path elements with a d that parses, in document order
GoodPaths(elems) ==
    SelectSeq(elems, LAMBDA el : el.tag = "path" /\ el.d # <<>> /\ Parses(el.d))

C21_FailedPathIsSkippedWhole ==
    pc # "call" =>
        LET good == GoodPaths(fn_arg)
            paths == fn_ret.paths
        IN  /\ Len(paths) = Len(good)
            /\ \A k \in 1..Len(paths) :
                  /\ paths[k].d = good[k].d
                  /\ Len(paths[k].segments) = Len(good[k].d)
                  /\ \A j \in 1..Len(good[k].d) :
                        /\ paths[k].segments[j].type = good[k].d[j].cls
                        /\ paths[k].segments[j].data.end = good[k].d[j].end

\* a path that fails after its first segments lies between two that parse
C21_Witness ==
    /\ pc = "paths_extracted"
    /\ Len(fn_arg) = 3
    /\ fn_arg[1].tag = "path" /\ fn_arg[2].tag = "path" /\ fn_arg[3].tag = "path"
    /\ Parses(fn_arg[1].d) /\ fn_arg[1].d # <<>>
    /\ Len(fn_arg[2].d) = 3 /\ fn_arg[2].d[2].cls = "Unconvertible"
    /\ Parses(fn_arg[3].d) /\ fn_arg[3].d # <<>> /\ fn_arg[3] # fn_arg[1]
    /\ Len(fn_ret.paths) = 2

-----------------------------------------------------------------------------
(* C22: a polyline or polygon element whose points attribute is malformed  *)
(* (a token that is no number, or an odd number of coordinates) yields a   *)
(* shape with an empty point list and never a failure:                     *)
(* extract_shape_elements returns and every other shape is extracted.      *)

IsShapeElem(el) == el.tag \in {"polyline", "polygon", "circle"}

Malformed(el) ==
    /\ el.tag \in {"polyline", "polygon"}
    /\ LET coords == split(replace_commas(el.points))
       IN  \/ Len(coords) % 2 = 1
           \/ \E i \in 1..Len(coords) : float(coords[i]) = ValueError

C22_MalformedPointsAreEmpty ==
    pc \in {"shapes_extracted", "exported", "failed"} =>
        LET elems == SelectSeq(fn_arg, IsShapeElem)
        IN  /\ ~fn_ret.shapes.raised
            /\ Len(fn_ret.shapes.value) = Len(elems)
            /\ \A k \in 1..Len(elems) :
                  Malformed(elems[k]) => fn_ret.shapes.value[k].points = <<>>

-----------------------------------------------------------------------------
(* C23: every polyline entity emitted by synthesis has at least 2          *)
(* vertices and every emitted circle or ellipse has strictly positive      *)
(* radii; an input that would violate this is dropped, no error is raised  *)
(* and the remaining entities are emitted.                                 *)

WellFormed(e) ==
    /\ e.kind = "LWPOLYLINE" => Len(e.points) >= 2
    /\ e.kind = "CIRCLE" => RLt(R(0), e.radius)
    /\ e.kind = "ELLIPSE" =>
          /\ RLt(R(0), e.ratio)
          /\ RLt(R(0), e.major_axis[1]) \/ RLt(R(0), e.major_axis[2])

\* the shapes that have an entity
Emittable(shape) ==
    CASE shape.type = "circle" -> RLt(R(0), shape.radius)
      [] shape.type = "ellipse" -> RLt(R(0), shape.radius_x) /\ RLt(R(0), shape.radius_y)
      [] shape.type \in {"polyline", "polygon"} -> Len(shape.points) >= 2
      [] OTHER -> TRUE

-----------------------------------------------------------------------------
(* C26: in every polyline emitted from a path's accumulator each pair of   *)
(* consecutive vertices is the (start, end) of a Line segment of that      *)
(* path, and the closing edge of a closed polyline is that path's Close    *)
(* segment, whatever Moves, curves or arcs occur between the Lines.        *)

\* path k has a segment with the operation op from a to b
Draws(k, op, a, b) ==
    \E j \in 1..Len(doc.paths[k]) :
        /\ doc.paths[k][j].operation = op
        /\ doc.paths[k][j].data.start = a
        /\ doc.paths[k][j].data.end = b

C26_EveryEdgeIsALine ==
    \A i \in 1..Len(msp) :
        (i <= Len(origin) /\ origin[i].from = "acc") =>
            LET src == origin[i].src
                k == origin[i].path
            IN  /\ \A j \in 1..(Len(src) - 1) : Draws(k, "l", src[j], src[j + 1])
                /\ msp[i].closed => Draws(k, "z", src[Len(src)], src[1])

-----------------------------------------------------------------------------
(* C27: no Line segment is lost by the path walk: after any Line segment   *)
(* the accumulator holds at least 2 points, the accumulator is eventually  *)
(* flushed whole by the next Move, the next Close or the end of the path   *)
(* and nothing of it is kept, so the end point of every Line segment of a  *)
(* path is in one polyline emitted for that path.                          *)

\* the polylines emitted from the accumulator so far
Flushed == Len(SelectSeq(origin, LAMBDA o : o.from = "acc"))

\* the last step flushed the accumulator whole
FlushedWhole ==
    /\ EmittedOne
    /\ Last(origin).from = "acc" /\ Last(origin).path = path_idx
    /\ Last(origin).src = prev.acc
    /\ Last(msp).kind = "LWPOLYLINE"
    /\ Last(msp).points = FlipOnceAll(prev.acc)

C27_LineStep ==
    After("l") =>
        /\ Len(polyline_points) >= 2
        /\ polyline_points =
              (IF prev.acc = <<>> THEN <<SegRead.data.start>> ELSE prev.acc)
                  \o <<SegRead.data.end>>
        /\ EmittedNone

C27_CurveStep ==
    (After("c") \/ After("q") \/ After("a")) => polyline_points = prev.acc

C27_FlushStep ==
    /\ (After("m") /\ Len(prev.acc) >= 2) =>
          FlushedWhole /\ polyline_points = <<SegRead.data.end>>
    /\ (After("z") /\ Len(prev.acc) >= 2) =>
          FlushedWhole /\ polyline_points = <<>>
    /\ (prev.step = "end" /\ Len(prev.acc) >= 2) => FlushedWhole
    /\ prev.step = "start" => polyline_points = <<>>

\* when a path has been walked, the end of each of its Lines is in a
\* polyline emitted from the accumulator for that path
C27_AtEnd ==
    prev.step = "end" =>
        \A j \in 1..Len(CurPath) :
            CurPath[j].operation = "l" =>
                \E i \in 1..Len(msp) :
                    /\ origin[i].from = "acc" /\ origin[i].path = path_idx
                    /\ \E n \in 2..Len(origin[i].src) :
                          origin[i].src[n] = CurPath[j].data.end

-----------------------------------------------------------------------------
(* C28: the statistics returned by create_dxf_from_vectors match the       *)
(* drawing: each counter (lines, polylines, splines, circles, ellipses)    *)
(* equals the number of entities of that kind added to the modelspace.     *)

Entities(kind) == Len(SelectSeq(msp, LAMBDA en : en.kind = kind))

C28_StatsMatchDrawing ==
    pc = "done" =>
        /\ stats.lines = Entities("LINE")
        /\ stats.polylines = Entities("LWPOLYLINE")
        /\ stats.splines = Entities("SPLINE")
        /\ stats.circles = Entities("CIRCLE")
        /\ stats.ellipses = Entities("ELLIPSE")

-----------------------------------------------------------------------------
(* C24: in the batch pipeline a failure while processing one file (a       *)
(* non-zero exit of a stage, a missing JSON or DXF, a stage timeout) gives *)
(* a failed result for that file tagged with the stage in which it failed, *)
(* 'extraction' or 'conversion', and never aborts the batch: every other   *)
(* file is still processed and gets its own result.                        *)

Returned(f) == fn_ret.w[f].pc \in {"done", "collected"}

FailedAt(f, stage) ==
    /\ ~fn_ret.w[f].result.success /\ ~fn_ret.w[f].result.skipped
    /\ fn_ret.w[f].result.stage = stage
    /\ fn_ret.w[f].result.error # "None"

ErrorsOf(f) == SelectSeq(fn_ret.errors, LAMBDA er : er.file = f)

C24_FailureIsTaggedAndLocal ==
    /\ \A f \in SvgFiles :
        Returned(f) =>
            LET w == fn_ret.w[f] IN
            /\ w.ext \in {"exit", "timeout"} => FailedAt(f, "extraction")
            /\ w.result.error = "JSON not created" =>
                  w.ext \in {"ok", "silent"} /\ FailedAt(f, "extraction")
            /\ w.conv \in {"exit", "silent", "timeout"} => FailedAt(f, "conversion")
            /\ ~w.result.success => w.result.stage \in {"extraction", "conversion"}
            /\ (w.pc = "collected" /\ ~w.result.success) =>
                  /\ Len(ErrorsOf(f)) = 1
                  /\ ErrorsOf(f)[1].stage = w.result.stage
    /\ (fn_ret.phase = "finished" /\ ~fn_ret.interrupted /\ fn_arg.n > 0) =>
          /\ fn_ret.summary
          /\ \A f \in SvgFiles : fn_ret.w[f].pc = "collected"

\* the extraction of file 1 ran into its timeout and the conversion of
\* file 2 wrote no DXF: both have their result and the run reached its
\* summary
C24_Witness ==
    /\ fn_arg.n = 2 /\ fn_ret.summary
    /\ fn_ret.w[1].ext = "timeout" /\ FailedAt(1, "extraction")
    /\ fn_ret.w[2].conv = "silent" /\ FailedAt(2, "conversion")
    /\ fn_ret.stats.failed = 2

-----------------------------------------------------------------------------
(* C25: if the DXF of a file exists when its worker starts, the worker     *)
(* launches neither extraction nor conversion, leaves the DXF unchanged    *)
(* and reports the file as skipped and successful; a second run after a    *)
(* fully successful first run skips every file and reports no failure.     *)

\* the DXF of f was written by an earlier run
HadDxf(f) == fn_ret.dxf[f].run > 0 /\ fn_ret.dxf[f].run < fn_ret.run

C25_ExistingDxfIsSkipped ==
    /\ \A f \in SvgFiles :
        LET w == fn_ret.w[f] IN
        /\ (HadDxf(f) /\ w.pc # "queued") =>
              /\ w.pc \in {"done", "collected"}
              /\ w.result.skipped /\ w.result.success
              /\ w.ext = "none" /\ w.conv = "none"
        /\ w.result.skipped => HadDxf(f)
    /\ (fn_ret.prev_ok /\ fn_ret.summary) =>
          /\ fn_ret.stats.skipped = fn_ret.stats.total_files
          /\ fn_ret.stats.failed = 0
          /\ fn_ret.returned = "True"

\* the second run over two files that the first run converted
C25_Witness ==
    /\ fn_arg.n = 2 /\ fn_ret.run = 2
    /\ fn_ret.prev_ok /\ fn_ret.summary
    /\ fn_ret.stats.skipped = 2
    /\ fn_ret.dxf[1].run = 1 /\ fn_ret.dxf[2].run = 1

-----------------------------------------------------------------------------
(* C29: batch accounting is exact under any completion order of the        *)
(* workers: when run() reaches its summary, successful + failed + skipped  *)
(* = total_files, every SVG file is counted in exactly one of the three    *)
(* counters, the error list has exactly one entry per failed file, and     *)
(* run() returns True exactly when failed = 0.                             *)

FilesWhere(P(_)) == Cardinality({f \in SvgFiles : P(fn_ret.w[f].result)})

C29_AccountingIsExact ==
    fn_ret.summary =>
        LET st == fn_ret.stats IN
        /\ st.total_files = fn_arg.n
        /\ st.successful + st.failed + st.skipped = st.total_files
        /\ st.skipped = FilesWhere(LAMBDA r : r.skipped)
        /\ st.successful = FilesWhere(LAMBDA r : r.success /\ ~r.skipped)
        /\ st.failed = FilesWhere(LAMBDA r : ~r.success /\ ~r.skipped)
        /\ Len(fn_ret.errors) = st.failed
        /\ \A f \in SvgFiles :
              Len(ErrorsOf(f)) = IF fn_ret.w[f].result.success THEN 0 ELSE 1
        /\ (fn_ret.returned = "True") <=> (st.failed = 0)
        /\ fn_ret.returned \in {"True", "False"}

\* file 2 failed and was collected before file 1, which was converted, in
\* a run that skipped nothing
C29_Witness ==
    /\ fn_arg.n = 2 /\ fn_ret.summary
    /\ fn_ret.stats.failed = 1 /\ fn_ret.stats.successful = 1
    /\ fn_ret.errors[1].file = 2
    /\ fn_ret.w[1].conv = "ok"
    /\ fn_ret.returned = "False"

-----------------------------------------------------------------------------
(* C30: across any sequence of batch runs sharing one temp directory, the  *)
(* DXF written for a file in a run is converted from the JSON that the     *)
(* extraction of that file produced in that run, and a file whose          *)
(* extraction fails in the current run is reported as failed at stage      *)
(* 'extraction'.                                                           *)

C30_ConvertsFreshJson ==
    \A f \in SvgFiles :
        /\ fn_ret.dxf[f].run > 0 => fn_ret.dxf[f].json = fn_ret.dxf[f].run
        /\ (Returned(f) /\ fn_ret.w[f].ext \in {"exit", "silent", "timeout"}) =>
              FailedAt(f, "extraction")

====
